---- MODULE Spec2Model ----
(***************************************************************************)
(* A model of libretro, the client library of the retro messenger:         *)
(*   - the wire codec (protocol.py),                                       *)
(*   - the packet I/O of NetClient (net.py),                               *)
(*   - the end-to-end message handler (MsgHandler.py, crypto.py),          *)
(*   - the login handshake of RetroClient (RetroClient.py),                *)
(*   - account creation (AccountCreator.py, AccountDb.py),                 *)
(*   - the message store and its databases (MsgStore.py),                  *)
(*   - the friend database (FriendDb.py),                                  *)
(*   - loading an account (RetroClient.py, Account.py),                    *)
(*   - the file upload and download (FileTransfer.py, crypto.py),          *)
(*   - the receive loop of the bot (RetroBot.py),                          *)
(*   - the packet types and unpack_packet (protocol.py),                   *)
(*   - the msg and files tables of a conversation (MsgStore.py),           *)
(*   - the choice of a database name (FriendDb.py),                        *)
(*   - the conversations of the store by friend name (MsgStore.py).        *)
(*                                                                         *)
(* Each part has its own specification over its own variables; the         *)
(* variables of the other parts stay at their initial values.              *)
(***************************************************************************)
EXTENDS Integers, Sequences, FiniteSets, TLC

VARIABLES
    \* header codec (protocol.py)
    hpc, ht, hn, hbuf, hres,
    \* senders on one connection (net.py, send side)
    spc, spkt, segs, sentLog,
    \* byte stream and receiver (net.py, receive side)
    stream, consumed, peerClosed,
    rpc, rto, racc, rhdr, rgot, rcause, rret, nret,
    \* end-to-end messages (MsgHandler.py)
    mpc, morig, menv, mtamper, mrecv, mres, msteps,
    \* login handshake (RetroClient.py)
    cconn, cpc, cnonce, cwire, cresp, cres, cattempts,
    \* account creation (AccountCreator.py, AccountDb.py)
    apc, ain, aconn, asent, apckt, afs, ares,
    \* message store (MsgStore.py)
    stpc, stnow, stafter, stconv, stdb, stadded, stres,
    \* friend database (FriendDb.py)
    ftable, fres,
    \* loading an account (RetroClient.py, Account.py)
    lconn, laccount, lhandler, lstore, ldisk, lres, lloads,
    \* file upload (FileTransfer.py)
    upc, uarg, uconn, ufile, uresp, umain, ures, uloads,
    \* file download (FileTransfer.py, crypto.py)
    dpc, dblob, dstream, dsent, dsize, ddata, dnrecv, dconn, dout, dres,
    \* the bot's receive loop (RetroBot.py)
    bpc, bdone, bconnected, bsession, bpolls, blast, bhandled,
    \* NetClient.conn of the receiving connection (net.py)
    nconn,
    \* unpack_packet (protocol.py)
    kpc, kbuf, ksizes, kres,
    \* account creation: the user id (AccountCreator.py, AccountDb.py)
    auserid, adbid, arecv,
    \* the msg and files tables of one MsgDB (MsgStore.py)
    qpc, qmsg, qfiles, qcalls, qres,
    \* FriendDb.get_random_dbname (FriendDb.py)
    gpc, gdir, gdraws, gname,
    \* MsgStore.conversations and the friends' database files (MsgStore.py)
    wcache, wfiles, wcalls, wres,
    \* the bot's NetClient.conn over the sessions (RetroBot.py, RetroClient.py, net.py)
    bsock, bmade, bended, bdead, bhello

hvars == <<hpc, ht, hn, hbuf, hres>>
svars == <<spc, spkt, segs, sentLog>>
rvars == <<stream, consumed, peerClosed,
           rpc, rto, racc, rhdr, rgot, rcause, rret, nret>>
mvars == <<mpc, morig, menv, mtamper, mrecv, mres, msteps>>
cvars == <<cconn, cpc, cnonce, cwire, cresp, cres, cattempts>>
avars == <<apc, ain, aconn, asent, apckt, afs, ares>>
\* the variables of the parts that follow the login handshake
stvars == <<stpc, stnow, stafter, stconv, stdb, stadded, stres>>
fvars == <<ftable, fres>>
lvars == <<lconn, laccount, lhandler, lstore, ldisk, lres, lloads>>
uvars == <<upc, uarg, uconn, ufile, uresp, umain, ures, uloads>>
dvars == <<dpc, dblob, dstream, dsent, dsize, ddata, dnrecv, dconn, dout, dres>>
bvars == <<bpc, bdone, bconnected, bsession, bpolls, blast, bhandled>>
nvars == <<nconn>>
kvars == <<kpc, kbuf, ksizes, kres>>
idvars == <<auserid, adbid, arecv>>
qvars == <<qpc, qmsg, qfiles, qcalls, qres>>
gvars == <<gpc, gdir, gdraws, gname>>
wvars == <<wcache, wfiles, wcalls, wres>>
bnvars == <<bsock, bmade, bended, bdead, bhello>>
xvars == <<avars, stvars, fvars, lvars, uvars, dvars, bvars, nvars, kvars, idvars, qvars, gvars, wvars, bnvars>>
vars  == <<hvars, svars, rvars, mvars, cvars, xvars>>

(***************************************************************************)
(* Python values that the code returns or tests for truth.                 *)
(***************************************************************************)
PyNone     == [py |-> "None",  v |-> <<>>]
PyFalse    == [py |-> "False", v |-> <<>>]
PyBytes(s) == [py |-> "bytes", v |-> s]

\* Python's truth test `not x` for the values above.
Falsy(x) == x.py \in {"None", "False"} \/ (x.py = "bytes" /\ x.v = <<>>)

(***************************************************************************)
(* protocol.py: the 8 byte header, struct format '!HHi'.                   *)
(***************************************************************************)
RETRO_PROTOCOL_VERSION == 257

HDR_SIZE == 8

T_SUCCESS == 1

T_CHATMSG == 10

\* '!H': an unsigned 16 bit integer, big endian.
BE16(v) == << (v \div 256) % 256, v % 256 >>

\* '!i': a signed 32 bit integer, big endian, two's complement.
BE32(n) == << (n \div 16777216) % 256, (n \div 65536) % 256,
              (n \div 256) % 256, n % 256 >>

UnBE16(b) == b[1] * 256 + b[2]

UnBE32(b) ==
    LET top == IF b[1] >= 128 THEN b[1] - 256 ELSE b[1]
    IN  ((top * 256 + b[2]) * 256 + b[3]) * 256 + b[4]

pack_header_v(version, pckt_type, size) ==
    BE16(version) \o BE16(pckt_type) \o BE32(size)

\* A byte-order slip: the type written low byte first.
pack_header_le(pckt_type, size) ==
    LET h == pack_header_v(RETRO_PROTOCOL_VERSION, pckt_type, size)
    IN  << h[1], h[2], h[4], h[3], h[5], h[6], h[7], h[8] >>

pack_header(pckt_type, size) ==
    pack_header_v(RETRO_PROTOCOL_VERSION, pckt_type, size)

\* A format slip: '!Hhi', the type read as a signed 16 bit integer.
unpack_header_signed_type(b) ==
    LET t == UnBE16(SubSeq(b, 3, 4))
    IN  << UnBE16(SubSeq(b, 1, 2)), IF t >= 32768 THEN t - 65536 ELSE t,
           UnBE32(SubSeq(b, 5, 8)) >>

unpack_header(b) ==
    << UnBE16(SubSeq(b, 1, 2)), UnBE16(SubSeq(b, 3, 4)), UnBE32(SubSeq(b, 5, 8)) >>

(***************************************************************************)
(* Initial values of each part, and the values a part keeps while another  *)
(* part's specification runs.                                              *)
(***************************************************************************)
NoRet        == [kind |-> "none",  val |-> PyNone, type |-> 0, exc |-> ""]
Ret(x)       == [kind |-> "value", val |-> x,      type |-> 0, exc |-> ""]
RetTuple(t, x) == [kind |-> "tuple", val |-> x,    type |-> t, exc |-> ""]
Raise(e)     == [kind |-> "raise", val |-> PyNone, type |-> 0, exc |-> e]

Threads == {1, 2}

HPark ==
    /\ hpc = "off" /\ ht = 0 /\ hn = 0 /\ hbuf = <<>> /\ hres = <<>>

SInit ==
    /\ spc = [i \in Threads |-> "idle"]
    /\ spkt = [i \in Threads |-> <<>>]
    /\ segs = <<>>
    /\ sentLog = <<>>

RInit ==
    /\ stream = <<>> /\ consumed = 0 /\ peerClosed = FALSE
    /\ rpc = "idle" /\ rto = 0 /\ racc = <<>> /\ rhdr = <<>>
    /\ rgot = 0 /\ rcause = "none" /\ rret = NoRet /\ nret = 0

MPark ==
    /\ mpc = "off" /\ morig = <<>> /\ menv = <<>> /\ mtamper = "none"
    /\ mrecv = "none" /\ mres = <<>> /\ msteps = <<>>

NoResp == [kind |-> "none", type |-> "", hasmsg |-> FALSE, msg |-> ""]

NoResult == [kind |-> "none", reason |-> ""]

CPark ==
    /\ cconn = "None" /\ cpc = "off" /\ cnonce = 0 /\ cwire = <<>>
    /\ cresp = NoResp /\ cres = NoResult /\ cattempts = 0

NoInput == [is_bot |-> FALSE, validate |-> FALSE]

APark ==
    /\ apc = "off" /\ ain = NoInput /\ aconn = "None" /\ asent = <<>>
    /\ apckt = NoRet /\ afs = {} /\ ares = "none"

Friends == {"bob", "carol"}

\* a conversation that is not in MsgStore.conversations
Absent == [cached |-> FALSE, dbopen |-> FALSE, last_action |-> 0, view |-> <<>>]

NoOp ==
    [op |-> "none", friend |-> "", raised |-> "", val |-> <<>>,
     reopened |-> FALSE, again |-> FALSE, before |-> <<>>]

StPark ==
    /\ stpc = "off" /\ stnow = 0 /\ stafter = 0
    /\ stconv = [f \in Friends |-> Absent]
    /\ stdb = [f \in Friends |-> <<>>]
    /\ stadded = [f \in Friends |-> {}]
    /\ stres = NoOp

NoCall == [op |-> "none", id |-> 0, name |-> "", raised |-> "", val |-> <<>>, before |-> <<>>]

FPark == ftable = <<>> /\ fres = NoCall

\* self.account = None; an Account object is numbered from 1
NoAccount ==
    [obj |-> 0, path |-> "", name |-> "", pw |-> "", id |-> "", key |-> "none",
     friendDb |-> FALSE]

\* RetroClient.__init__: conn, account, msgHandler, msgStore are None
LPark ==
    /\ lconn = 0 /\ laccount = NoAccount /\ lhandler = 0 /\ lstore = 0
    /\ ldisk = "ok" /\ lres = NoResult /\ lloads = 0

NoUpload == [friend |-> "", file |-> ""]

UPark ==
    /\ upc = "off" /\ uarg = NoUpload /\ uconn = "None" /\ ufile = <<>>
    /\ uresp = <<>> /\ umain = <<>> /\ ures = NoResult /\ uloads = 0

DPark ==
    /\ dpc = "off" /\ dblob = <<>> /\ dstream = <<>> /\ dsent = <<>>
    /\ dsize = 0 /\ ddata = <<>> /\ dnrecv = 0 /\ dconn = "None"
    /\ dout = "absent" /\ dres = NoResult

NoPoll == [kind |-> "none", valid |-> FALSE, handled |-> FALSE, session |-> 0]

BPark ==
    /\ bpc = "off" /\ bdone = FALSE /\ bconnected = FALSE /\ bsession = 0
    /\ bpolls = 0 /\ blast = NoPoll /\ bhandled = <<>>

NPark ==
    /\ nconn = "socket"

NoUnpack == [ok |-> FALSE, v |-> <<>>, err |-> ""]

KPark ==
    /\ kpc = "off" /\ kbuf = <<>> /\ ksizes = <<>> /\ kres = NoUnpack

IdPark ==
    /\ auserid = PyNone /\ adbid = PyNone /\ arecv = <<>>

NoDbCall == [op |-> "none", type |-> 0, arg |-> 0, inserted |-> 0, val |-> 0, raised |-> "", call |-> 0, msgs |-> <<>>]

QPark ==
    /\ qpc = "off" /\ qmsg = <<>> /\ qfiles = <<>> /\ qcalls = 0 /\ qres = NoDbCall

GPark ==
    /\ gpc = "off" /\ gdir = {} /\ gdraws = 0 /\ gname = ""

WPark ==
    /\ wcache = <<>> /\ wfiles = <<>> /\ wcalls = 0 /\ wres = <<>>

NoLogin == [sock |-> 0, n |-> 0]

BnPark ==
    /\ bsock = 0 /\ bmade = 0 /\ bended = {} /\ bdead = {} /\ bhello = NoLogin

XPark == APark /\ StPark /\ FPark /\ LPark /\ UPark /\ DPark /\ BPark /\ NPark /\ KPark /\ IdPark /\ QPark /\ GPark /\ WPark /\ BnPark

\* the parts up to the login handshake, at rest
NetPark == HPark /\ SInit /\ RInit /\ MPark /\ CPark

netvars == <<hvars, svars, rvars, mvars, cvars>>

(***************************************************************************)
(* The header codec on its own: pack a header, then unpack it.             *)
(***************************************************************************)
MinInt32 == -2147483647 - 1

TypeSamples == {0, 1, 4, 10, 255, 256, 257, 65535}

SizeSamples == {MinInt32, -65536, -257, -1, 0, 1, 255, 256, 65536, 2147483647}

InitHdr ==
    /\ hpc = "start" /\ ht \in TypeSamples /\ hn \in SizeSamples
    /\ hbuf = <<>> /\ hres = <<>>
    /\ SInit /\ RInit /\ MPark /\ CPark /\ XPark

PackHeader ==
    /\ hpc = "start"
    /\ hbuf' = pack_header(ht, hn)
    /\ hpc' = "packed"
    /\ UNCHANGED <<ht, hn, hres, svars, rvars, mvars, cvars, xvars>>

UnpackHeader ==
    /\ hpc = "packed"
    /\ hres' = unpack_header(hbuf)
    /\ hpc' = "unpacked"
    /\ UNCHANGED <<ht, hn, hbuf, svars, rvars, mvars, cvars, xvars>>

NextHdr == PackHeader \/ UnpackHeader

SpecHdr == InitHdr /\ [][NextHdr]_vars

\* C1 (as amended): unpack_header(pack_header(t, n)) is
\* (RETRO_PROTOCOL_VERSION, t, n) = (0x0101, t, n) for every t in u16 and
\* every n in i32.
C1_HeaderRoundTrip ==
    hpc = "unpacked" => hres = <<RETRO_PROTOCOL_VERSION, ht, hn>>

\* C1 witness: a header with a negative size and a two byte type has been
\* packed and unpacked.
C1_Witness ==
    /\ hpc = "unpacked" /\ hn = MinInt32 /\ ht = 65535
    /\ Len(hbuf) = HDR_SIZE /\ hres[3] = MinInt32

\* C1 as stated: the version read back is 1.
C1_Original ==
    hpc = "unpacked" => hres = <<1, ht, hn>>

(***************************************************************************)
(* net.py, send side: NetClient.send_packet called by the threads of one   *)
(* process on one connection.  send() is conn.sendall(data): the bytes of  *)
(* one call are appended to the stream in one piece.                       *)
(***************************************************************************)
MaxPackets == 2

SendTypes == {T_SUCCESS, T_CHATMSG, 65535}

\* The *data arguments of send_packet: no part, one empty part, one part,
\* two parts.
PartLists == { <<>>, << <<>> >>, << <<7>> >>, << <<7>>, <<9>> >> }

RECURSIVE JoinParts(_)
\* b''.join(data)
JoinParts(parts) ==
    IF parts = <<>> THEN <<>> ELSE Head(parts) \o JoinParts(Tail(parts))

\* send_packet up to and including send(hdr).  With parts the payload is
\* sent by a second send(); without, the call is over.
SendPacketHdr(i, t, parts) ==
    /\ spc[i] = "idle"
    /\ Len(sentLog) < MaxPackets
    /\ LET payload == JoinParts(parts)
           hdr     == IF parts # <<>> THEN pack_header(t, Len(payload))
                                      ELSE pack_header(t, 0)
       IN  /\ stream' = stream \o hdr
           /\ segs' = Append(segs, [who |-> i, what |-> "hdr", size |-> Len(payload)])
           /\ sentLog' = Append(sentLog, [t |-> t, payload |-> payload])
           /\ spc' = [spc EXCEPT ![i] = IF parts # <<>> THEN "hdr_sent" ELSE "idle"]
           /\ spkt' = [spkt EXCEPT ![i] = payload]

\* send_packet's send(payload).
SendPacketPayload(i) ==
    /\ spc[i] = "hdr_sent"
    /\ stream' = stream \o spkt[i]
    /\ segs' = Append(segs, [who |-> i, what |-> "payload", size |-> Len(spkt[i])])
    /\ spc' = [spc EXCEPT ![i] = "idle"]
    /\ spkt' = [spkt EXCEPT ![i] = <<>>]
    /\ UNCHANGED sentLog

(***************************************************************************)
(* net.py, receive side.  One step is one call of NetClient.recv inside    *)
(* recv_all inside recv_packet.  Bytes written by the peer arrive after an *)
(* arbitrary delay, so a recv() may see any non-empty prefix of what is    *)
(* unread, or nothing before the timeout.                                  *)
(***************************************************************************)
\* timeout_sec: 0 stands for None (can_read: `if not timeout_sec`).
TimeoutSamples == {0, 10}

Min(a, b) == IF a < b THEN a ELSE b

Avail == Len(stream) - consumed

\* n_bytes - nrecv of the running recv_all.
Need == IF rpc = "hdr" THEN HDR_SIZE - Len(racc) ELSE rhdr[3] - Len(racc)

\* recv_packet's version test.
version_unchecked(version) == TRUE

version_ok(version) == version = RETRO_PROTOCOL_VERSION

\* recv_all: `if not buf: return buf`, every falsy value turned into False.
recv_all_short_as_false(buf) == PyFalse

recv_all_short(buf) == buf

\* recv_packet after recv_all(8) returned the header bytes hdr.
\* The result is <<next rpc, unpacked header, return value>>.
recv_packet_header(hdr) ==
    LET h == unpack_header(hdr)
    IN  IF ~version_ok(h[1])
        THEN <<"idle", h, Raise("ValueError")>>
        ELSE IF h[3] > 0
        THEN <<"payload", h, NoRet>>
        ELSE <<"idle", h, RetTuple(h[2], PyNone)>>

\* recv_packet is called.
RecvPacketCall(to) ==
    /\ rpc = "idle"
    /\ rpc' = "hdr" /\ rto' = to /\ racc' = <<>> /\ rhdr' = <<>>
    /\ rgot' = 0 /\ rcause' = "none" /\ rret' = NoRet
    /\ UNCHANGED <<stream, consumed, peerClosed, nret>>

\* recv() returns k bytes; recv_all appends them and, when complete,
\* recv_packet goes on.
RecvData ==
    /\ rpc \in {"hdr", "payload"}
    /\ Avail > 0
    /\ \E k \in 1..Min(Avail, Need) :
         LET buf  == SubSeq(stream, consumed + 1, consumed + k)
             data == racc \o buf
         IN  /\ consumed' = consumed + k
             /\ rgot' = rgot + k
             /\ rcause' = "data"
             /\ IF k < Need
                THEN /\ racc' = data
                     /\ UNCHANGED <<rpc, rhdr, rret, nret>>
                ELSE IF rpc = "hdr"
                THEN LET r == recv_packet_header(data)
                     IN  /\ rpc' = r[1] /\ rhdr' = r[2] /\ rret' = r[3]
                         /\ racc' = <<>>
                         /\ nret' = IF r[3].kind = "tuple" THEN nret + 1 ELSE nret
                ELSE /\ rpc' = "idle"
                     /\ rret' = RetTuple(rhdr[2], PyBytes(data))
                     /\ racc' = <<>>
                     /\ nret' = nret + 1
                     /\ UNCHANGED rhdr
    /\ UNCHANGED <<stream, peerClosed, rto>>

\* A recv() that returned the falsy value buf: recv_all returns it, and
\* recv_packet returns it (`if not hdr: return hdr`, `if not data: return data`).
RecvShort(buf, cause) ==
    /\ rpc \in {"hdr", "payload"}
    /\ Falsy(buf)
    /\ rpc' = "idle"
    /\ rret' = Ret(recv_all_short(buf))
    /\ rcause' = cause
    /\ racc' = <<>>
    /\ UNCHANGED <<stream, consumed, peerClosed, rto, rhdr, rgot, nret>>

\* can_read() is False: select() timed out.  Only with a timeout_sec.
RecvTimeout ==
    /\ rto # 0
    /\ RecvShort(PyFalse, "timeout")

\* conn.recv() returns b'': the peer closed and every byte was read.
RecvEof ==
    /\ peerClosed /\ Avail = 0
    /\ RecvShort(PyBytes(<<>>), "eof")

\* select() or conn.recv() raises: recv_packet raises Exception.
RecvError ==
    /\ rpc \in {"hdr", "payload"}
    /\ rpc' = "idle"
    /\ rret' = Raise("Exception")
    /\ rcause' = "error"
    /\ racc' = <<>>
    /\ UNCHANGED <<stream, consumed, peerClosed, rto, rhdr, rgot, nret>>

rrest == <<consumed, peerClosed, rpc, rto, racc, rhdr, rgot, rcause, rret, nret>>

InitNet == HPark /\ SInit /\ RInit /\ MPark /\ CPark /\ XPark

(***************************************************************************)
(* Two threads of one process send on the same connection.                 *)
(***************************************************************************)
Send(i) ==
    /\ \E t \in SendTypes, parts \in PartLists : SendPacketHdr(i, t, parts)
    /\ UNCHANGED <<hvars, rrest, mvars, cvars, xvars>>

SendRest(i) ==
    /\ SendPacketPayload(i)
    /\ UNCHANGED <<hvars, rrest, mvars, cvars, xvars>>

NextSend == \E i \in Threads : Send(i) \/ SendRest(i)

SpecSend == InitNet /\ [][NextSend]_vars

\* C6: the packets of two threads that call send_packet concurrently are
\* never interleaved on the wire: what follows a header is that packet's
\* own payload.
C6_NoInterleaving ==
    \A k \in 1..Len(segs) :
        (segs[k].what = "hdr" /\ segs[k].size > 0 /\ k < Len(segs))
            => (segs[k + 1].who = segs[k].who /\ segs[k + 1].what = "payload")

(***************************************************************************)
(* A loopback pair: one thread sends packets with send_packet, the peer    *)
(* reads them with recv_packet() (no timeout) from a reliable stream.      *)
(***************************************************************************)
RecvCall ==
    /\ \E to \in TimeoutSamples : RecvPacketCall(to)
    /\ UNCHANGED <<hvars, svars, mvars, cvars, xvars>>

RecvCallBlocking ==
    /\ RecvPacketCall(0)
    /\ UNCHANGED <<hvars, svars, mvars, cvars, xvars>>

RecvDataStep == RecvData /\ UNCHANGED <<hvars, svars, mvars, cvars, xvars>>

NextLoop == Send(1) \/ SendRest(1) \/ RecvCallBlocking \/ RecvDataStep

SpecLoop == InitNet /\ [][NextLoop]_vars

\* What recv_packet returns for a packet of type t with payload p.
Received(t, p) == RetTuple(t, IF p = <<>> THEN PyNone ELSE PyBytes(p))

\* C2 (as amended): over a reliable stream the k-th packet returned by
\* recv_packet() is (t, payload) of the k-th send_packet(t, *parts), with
\* payload the concatenation of the parts when that is not empty and None
\* when it is empty (no parts, or only empty parts); nothing else is
\* returned.
C2_Framing ==
    /\ rret.kind \in {"none", "tuple"}
    /\ nret <= Len(sentLog)
    /\ rret.kind = "tuple" =>
         /\ nret >= 1
         /\ rret = Received(sentLog[nret].t, sentLog[nret].payload)

\* C2 witness: the second packet, sent as two parts, has been received whole.
C2_Witness ==
    /\ nret = 2 /\ rpc = "idle"
    /\ sentLog[2].payload = <<7, 9>>
    /\ rret = RetTuple(sentLog[2].t, PyBytes(<<7, 9>>))

\* C2 as stated: the payload returned is the concatenation of the parts,
\* also when that is empty.
C2_Original ==
    rret.kind = "tuple" =>
        /\ nret >= 1
        /\ rret = RetTuple(sentLog[nret].t, PyBytes(sentLog[nret].payload))

(***************************************************************************)
(* The receiver against an arbitrary peer: headers with any version and    *)
(* size, streams that stop anywhere, timeouts, a peer that closes.         *)
(***************************************************************************)
MaxPeerPackets == 1

RawPackets ==
    { [v |-> 257, t |-> 10, n |-> 0],  [v |-> 257, t |-> 10, n |-> 2],
      [v |-> 257, t |-> 1,  n |-> -1], [v |-> 1,   t |-> 10, n |-> 2],
      [v |-> 1,   t |-> 1,  n |-> 0],  [v |-> 2,   t |-> 10, n |-> 0],
      [v |-> 256, t |-> 1,  n |-> 2] }

RawBytes(p) ==
    pack_header_v(p.v, p.t, p.n) \o (IF p.n > 0 THEN SubSeq(<<7, 9>>, 1, p.n) ELSE <<>>)

\* The peer writes the first m bytes of a packet.
PeerWrite ==
    /\ ~peerClosed
    /\ Len(sentLog) < MaxPeerPackets
    /\ \E p \in RawPackets :
         \E m \in {3, HDR_SIZE, Len(RawBytes(p)) - 1, Len(RawBytes(p))} :
            /\ stream' = stream \o SubSeq(RawBytes(p), 1, m)
            /\ sentLog' = Append(sentLog, [t |-> p.t, payload |-> SubSeq(RawBytes(p), 1, m)])
    /\ UNCHANGED <<hvars, spc, spkt, segs, rrest, mvars, cvars, xvars>>

PeerClose ==
    /\ ~peerClosed
    /\ peerClosed' = TRUE
    /\ UNCHANGED <<hvars, svars, mvars, cvars, xvars, stream, consumed,
                   rpc, rto, racc, rhdr, rgot, rcause, rret, nret>>

RecvTimeoutStep == RecvTimeout /\ UNCHANGED <<hvars, svars, mvars, cvars, xvars>>

RecvEofStep == RecvEof /\ UNCHANGED <<hvars, svars, mvars, cvars, xvars>>

RecvErrorStep == RecvError /\ UNCHANGED <<hvars, svars, mvars, cvars, xvars>>

NextRecv ==
    \/ PeerWrite \/ PeerClose \/ RecvCall
    \/ RecvDataStep \/ RecvTimeoutStep \/ RecvEofStep \/ RecvErrorStep

SpecRecv == InitNet /\ [][NextRecv]_vars

\* A recv_packet call has returned or raised.
Returned == rpc = "idle" /\ rret.kind # "none"

\* C3 (as amended): recv_packet raises the protocol-version error
\* (ValueError), and returns no (type, payload) pair, for every received
\* header whose version field is not RETRO_PROTOCOL_VERSION = 0x0101; it
\* never goes on to read a payload for such a header.
C3_VersionMismatch ==
    /\ (Returned /\ rhdr # <<>> /\ rhdr[1] # RETRO_PROTOCOL_VERSION)
          => rret = Raise("ValueError")
    /\ rpc = "payload" => rhdr[1] = RETRO_PROTOCOL_VERSION

\* C3 witness: a header of version 1 has been read and rejected.
C3_Witness ==
    /\ Returned /\ rhdr # <<>> /\ rhdr[1] = 1 /\ rgot = HDR_SIZE
    /\ rret = Raise("ValueError")

\* C3 as stated: every header whose version field is not exactly 1 is
\* rejected with the protocol-version error.
C3_Original ==
    (Returned /\ rhdr # <<>> /\ rhdr[1] # 1) => rret = Raise("ValueError")

\* C4: a timeout before any byte arrived and a clean close before the
\* header are reported by two return values (False and b''), not by an
\* exception, and the two differ from each other and from a packet.
C4_Sentinels ==
    /\ (Returned /\ rgot = 0 /\ rcause = "timeout") => rret = Ret(PyFalse)
    /\ (Returned /\ rgot = 0 /\ rcause = "eof") => rret = Ret(PyBytes(<<>>))
    /\ Ret(PyFalse) # Ret(PyBytes(<<>>))
    /\ rret.kind = "tuple" => rcause = "data"
    /\ rret.kind = "raise" => ~(rgot = 0 /\ rcause \in {"timeout", "eof"})

\* C4 witness: the peer closed before sending anything and recv_packet
\* returned b''.
C4_Witness ==
    /\ Returned /\ rgot = 0 /\ rcause = "eof" /\ peerClosed
    /\ rret = Ret(PyBytes(<<>>))

\* C5: when the stream stops in the middle of a packet (timeout or close
\* after at least one byte of it was read), recv_packet yields an error,
\* never the timeout sentinel, the closed sentinel or a pair.
C5_TruncationIsError ==
    (Returned /\ rgot > 0 /\ rcause \in {"timeout", "eof"}) => rret.kind = "raise"

(***************************************************************************)
(* crypto.py, as terms: a ciphertext, a MAC or a signature is the record   *)
(* of what it was made from, and the inverse operation succeeds only with  *)
(* the matching key.  base64 text keeps its form beside the bytes it       *)
(* decodes to: b64decode ignores characters outside the alphabet and the   *)
(* unused bits of the last symbol, so several texts decode to the same     *)
(* bytes, and a text of the wrong length does not decode at all.           *)
(***************************************************************************)
Ok(v)   == [ok |-> TRUE,  v |-> v,    err |-> ""]
Fail(e) == [ok |-> FALSE, v |-> <<>>, err |-> e]

hash_sha512(data) == [fn |-> "sha512", d |-> data]

Lo32(h) == [fn |-> "lo32", d |-> h]

Hi32(h) == [fn |-> "hi32", d |-> h]

hmac_sha256(key, data) == [fn |-> "hmac", k |-> key, d |-> data]

\* aes_encrypt with the iv it drew; PKCS7 padding is part of the term.
aes_encrypt(key, data, iv) == [fn |-> "aes", k |-> key, iv |-> iv, d |-> data]

\* aes_decrypt: with another key or iv, or on other bytes, the unpadder
\* raises.
aes_decrypt(key, data, iv) ==
    IF data.fn = "aes" /\ data.k = key /\ data.iv = iv
    THEN Ok(data.d) ELSE Fail("padding")

b64encode(data) == [fn |-> "b64", form |-> "canonical", d |-> data]

b64decode(text) ==
    IF text.fn = "b64" /\ text.form # "invalid" THEN Ok(text.d) ELSE Fail("base64")

\* RetroPublicKey.encrypt(data, encode_base64=True) with the key of owner.
encrypt(owner, data) == b64encode([fn |-> "rsa", to |-> owner, d |-> data])

\* RetroPrivateKey.decrypt(data, data_is_base64=True) with the key of owner.
decrypt(owner, text) ==
    LET c == b64decode(text)
    IN  IF ~c.ok THEN c
        ELSE IF c.v.fn = "rsa" /\ c.v.to = owner THEN Ok(c.v.d)
        ELSE Fail("rsa")

\* RetroPrivateKey.sign(data, encode_base64=True) with the key of owner.
sign(owner, data) == b64encode([fn |-> "sig", by |-> owner, d |-> data])

\* A verify that accepts every signature.
verify_any(owner, sig, data) == TRUE

\* RetroPublicKey.verify(signature, data) with the key of owner.
verify(owner, sig, data) == sig.fn = "sig" /\ sig.by = owner /\ sig.d = data

\* str.encode() and bytes.decode()
str_encode(text) == [fn |-> "utf8", d |-> text]

bytes_decode(data) == IF data.fn = "utf8" THEN Ok(data.d) ELSE Fail("unicode")

(***************************************************************************)
(* Accounts and their friends (Account.friends: key = friend's user id).   *)
(***************************************************************************)
Users == {"alice", "bob", "carol"}

UserId(u) == [fn |-> "id", of |-> u]

\* alice and bob have each other; carol has both, and only alice has carol.
FriendsOf(u) ==
    CASE u = "alice" -> {"bob", "carol"}
      [] u = "bob"   -> {"alice"}
      [] OTHER       -> {"alice", "bob"}

\* A sender test against every user of the server.
known_sender_any(acc, from) == \E u \in Users : from = UserId(u)

\* `msg['from'] in self.account.friends`
known_sender(acc, from) == \E u \in FriendsOf(acc) : from = UserId(u)

\* self.account.friends[msg['from']]: the friend's name, whose key verifies.
friend_name(from) == from.of

(***************************************************************************)
(* MsgHandler.py                                                           *)
(***************************************************************************)
Hello == [fn |-> "str", s |-> "hello"]

Empty == [fn |-> "str", s |-> ""]

\* json.dumps(file_dict)
FileJson == [fn |-> "json", s |-> "file_dict"]

Texts == {Hello, Empty, FileJson}

MsgTypes == {"message", "file-message"}

make_msg_keys(kM) == << Lo32(hash_sha512(kM)), Hi32(hash_sha512(kM)) >>

\* make_msg by account acc for friend: << msg, e2e_msg >>.
make_msg(acc, friend, text, msg_type, kM, iv, now) ==
    LET kE   == make_msg_keys(kM)[1]
        kS   == make_msg_keys(kM)[2]
        enc  == aes_encrypt(kE, str_encode(text), iv)
        hmac == hmac_sha256(kS, <<iv, enc>>)
        header_raw == [kM |-> kM, iv |-> iv, hmac |-> hmac, time |-> str_encode(now)]
    IN  << [type |-> msg_type, from |-> acc, to |-> friend, time |-> now,
            msg |-> text, unseen |-> 0],
           [type |-> msg_type, from |-> UserId(acc), to |-> UserId(friend),
            header |-> encrypt(friend, header_raw),
            sig |-> sign(acc, enc),
            body |-> b64encode(enc)] >>

\* The keys taken the wrong way round.
decrypt_msg_keys_swapped(kM) == << Hi32(hash_sha512(kM)), Lo32(hash_sha512(kM)) >>

decrypt_msg_keys(kM) == << Lo32(hash_sha512(kM)), Hi32(hash_sha512(kM)) >>

\* The end of decrypt_msg: the message dictionary built from the text.
decrypt_msg_result(acc, msg, dtime, msg_text) ==
    LET msg_res == [type |-> msg.type, from |-> friend_name(msg.from), to |-> acc,
                    time |-> dtime, msg |-> Empty, unseen |-> 1,
                    file |-> "", downloaded |-> ""]
    IN  IF msg.type = "file-message"
        THEN IF msg_text.fn = "json"
             THEN Ok([msg_res EXCEPT !.file = msg_text.s, !.downloaded = "False"])
             ELSE Fail("json")
        ELSE Ok([msg_res EXCEPT !.msg = msg_text])

\* decrypt_msg by account acc: [res |-> result, steps |-> what was done].
decrypt_msg(acc, msg) ==
    IF ~known_sender(acc, msg.from)
    THEN [res |-> Fail("no_friend"), steps |-> <<"friend">>]
    ELSE
    LET enc == b64decode(msg.body) IN
    IF ~enc.ok
    THEN [res |-> enc, steps |-> <<"friend", "b64body">>]
    ELSE
    LET sig == b64decode(msg.sig) IN
    IF ~sig.ok
    THEN [res |-> sig, steps |-> <<"friend", "b64body", "b64sig">>]
    ELSE
    IF ~verify(friend_name(msg.from), sig.v, enc.v)
    THEN [res |-> Fail("signature"),
          steps |-> <<"friend", "b64body", "b64sig", "verify">>]
    ELSE
    LET hdr == decrypt(acc, msg.header) IN
    IF ~hdr.ok
    THEN [res |-> hdr,
          steps |-> <<"friend", "b64body", "b64sig", "verify", "rsa">>]
    ELSE
    LET kE    == decrypt_msg_keys(hdr.v.kM)[1]
        kS    == decrypt_msg_keys(hdr.v.kM)[2]
        hmac2 == hmac_sha256(kS, <<hdr.v.iv, enc.v>>)
    IN
    IF hdr.v.hmac # hmac2
    THEN [res |-> Fail("hmac"),
          steps |-> <<"friend", "b64body", "b64sig", "verify", "rsa", "hmac">>]
    ELSE
    LET dec  == aes_decrypt(kE, enc.v, hdr.v.iv)
        text == IF dec.ok THEN bytes_decode(dec.v) ELSE dec
    IN
    [res |-> IF text.ok THEN decrypt_msg_result(acc, msg, hdr.v.time.d, text.v)
                        ELSE text,
     steps |-> <<"friend", "b64body", "b64sig", "verify", "rsa", "hmac", "aes">>]

(***************************************************************************)
(* One message: an account makes it for a friend, the network may alter    *)
(* one part of the envelope, some account decrypts what arrives.           *)
(***************************************************************************)
Rand(n) == [fn |-> "rand", n |-> n]

Now == [fn |-> "str", s |-> "24-01-01 10:00"]

\* Bytes that are not the bytes x.
Garbled(x) == [fn |-> "garbled", d |-> x]

TamperKinds ==
    {"body_bits", "body_encoding", "body_invalid", "splice",
     "header_bits", "sig_bits", "type", "to", "from"}

\* Another envelope of the same sender for the same friend.
OtherEnvelope ==
    make_msg(morig.sender, morig.friend,
             IF morig.text = Hello THEN Empty ELSE Hello,
             morig.type, Rand(3), Rand(4), Now)[2]

Tampered(env, kind) ==
    CASE kind = "body_bits" ->
           [env EXCEPT !.body = b64encode(Garbled(env.body.d))]
      [] kind = "body_encoding" ->
           [env EXCEPT !.body.form = "noncanonical"]
      [] kind = "body_invalid" ->
           [env EXCEPT !.body.form = "invalid"]
      [] kind = "splice" ->
           [env EXCEPT !.body = OtherEnvelope.body, !.sig = OtherEnvelope.sig]
      [] kind = "header_bits" ->
           [env EXCEPT !.header = b64encode(Garbled(env.header.d))]
      [] kind = "sig_bits" ->
           [env EXCEPT !.sig = b64encode(Garbled(env.sig.d))]
      [] kind = "type" ->
           [env EXCEPT !.type = IF env.type = "message" THEN "file-message"
                                                        ELSE "message"]
      [] kind = "to" ->
           [env EXCEPT !.to = UserId("mallory")]
      [] OTHER ->
           [env EXCEPT !.from = IF env.from = UserId("alice") THEN UserId("mallory")
                                                              ELSE UserId("alice")]

InitMsg ==
    /\ mpc = "start" /\ morig = <<>> /\ menv = <<>> /\ mtamper = "none"
    /\ mrecv = "none" /\ mres = <<>> /\ msteps = <<>>
    /\ HPark /\ SInit /\ RInit /\ CPark /\ XPark

MakeMsg ==
    /\ mpc = "start"
    /\ \E acc \in Users, text \in Texts, msg_type \in MsgTypes :
         \E friend \in FriendsOf(acc) :
            /\ morig' = [sender |-> acc, friend |-> friend, text |-> text,
                         type |-> msg_type]
            /\ menv' = make_msg(acc, friend, text, msg_type, Rand(1), Rand(2), Now)[2]
    /\ mpc' = "made"
    /\ UNCHANGED <<mtamper, mrecv, mres, msteps, hvars, svars, rvars, cvars, xvars>>

Tamper ==
    /\ mpc = "made" /\ mtamper = "none"
    /\ \E kind \in TamperKinds :
         /\ mtamper' = kind
         /\ menv' = Tampered(menv, kind)
    /\ UNCHANGED <<mpc, morig, mrecv, mres, msteps, hvars, svars, rvars, cvars, xvars>>

DecryptMsg ==
    /\ mpc = "made"
    /\ \E acc \in Users :
         /\ mrecv' = acc
         /\ mres' = decrypt_msg(acc, menv).res
         /\ msteps' = decrypt_msg(acc, menv).steps
    /\ mpc' = "decrypted"
    /\ UNCHANGED <<morig, menv, mtamper, hvars, svars, rvars, cvars, xvars>>

NextMsg == MakeMsg \/ Tamper \/ DecryptMsg

SpecMsg == InitMsg /\ [][NextMsg]_vars

Before(a, b, steps) ==
    \A j \in 1..Len(steps) : steps[j] = b => \E i \in 1..(j - 1) : steps[i] = a

\* C7: when A and B have each other as friends, decrypt_msg by B of the
\* envelope of A's make_msg(B, text) succeeds and returns the text.
C7_RoundTrip ==
    (/\ mpc = "decrypted" /\ mtamper = "none" /\ morig.type = "message"
     /\ mrecv = morig.friend /\ morig.sender \in FriendsOf(mrecv))
        => (/\ mres.ok /\ mres.v.msg = morig.text
            /\ mres.v.from = morig.sender /\ mres.v.to = mrecv)

\* C7 witness: bob has decrypted alice's "hello".
C7_Witness ==
    /\ mpc = "decrypted" /\ mtamper = "none" /\ morig.type = "message"
    /\ morig.sender = "alice" /\ mrecv = "bob" /\ morig.friend = "bob"
    /\ mres.ok /\ mres.v.msg = Hello /\ Len(msteps) = 7

\* C8 (as amended): if the body of a valid envelope is altered in transit so
\* that it decodes to other ciphertext bytes, decrypt_msg fails with the
\* signature error before the header is decrypted (with the HMAC error, if
\* body and signature were both replaced by those of another message of
\* the sender) and returns no message; in every run the signature is
\* checked before the header is decrypted and the HMAC before the body is
\* AES-decrypted.
C8_TamperBody ==
    /\ (/\ mpc = "decrypted" /\ mtamper = "body_bits"
        /\ mrecv = morig.friend /\ morig.sender \in FriendsOf(mrecv))
          => (~mres.ok /\ mres.err = "signature" /\ ~(\E i \in 1..Len(msteps) : msteps[i] = "rsa"))
    /\ (/\ mpc = "decrypted" /\ mtamper = "splice"
        /\ mrecv = morig.friend /\ morig.sender \in FriendsOf(mrecv))
          => (~mres.ok /\ mres.err = "hmac" /\ ~(\E i \in 1..Len(msteps) : msteps[i] = "aes"))
    /\ mpc = "decrypted" => (Before("verify", "rsa", msteps) /\ Before("hmac", "aes", msteps))

\* C8 witness: bob rejected alice's envelope, whose body bytes were changed,
\* at the signature.
C8_Witness ==
    /\ mpc = "decrypted" /\ mtamper = "body_bits"
    /\ morig.sender = "alice" /\ mrecv = "bob" /\ morig.friend = "bob"
    /\ ~mres.ok /\ mres.err = "signature"
    /\ msteps = <<"friend", "b64body", "b64sig", "verify">>

\* C8 as stated: every alteration of the body of a valid envelope makes
\* decrypt_msg fail with a signature or HMAC error.
C8_Original ==
    (/\ mpc = "decrypted"
     /\ mtamper \in {"body_bits", "body_encoding", "body_invalid"}
     /\ mrecv = morig.friend /\ morig.sender \in FriendsOf(mrecv))
        => (~mres.ok /\ mres.err \in {"signature", "hmac"})

\* C9: decrypt_msg fails for every envelope whose from-id is not a key of
\* the account's friend map, before any decoding, signature verification,
\* header decryption or body decryption.
C9_UnknownSender ==
    (mpc = "decrypted" /\ ~(\E u \in FriendsOf(mrecv) : menv.from = UserId(u)))
        => (~mres.ok /\ mres.err = "no_friend" /\ msteps = <<"friend">>)

\* C9 witness: carol, whom bob does not have as a friend, sent bob a valid
\* envelope and bob's decrypt_msg refused it.
C9_Witness ==
    /\ mpc = "decrypted" /\ mtamper = "none"
    /\ morig.sender = "carol" /\ morig.friend = "bob" /\ mrecv = "bob"
    /\ ~mres.ok /\ mres.err = "no_friend"

(***************************************************************************)
(* RetroClient.py: connect(), the login handshake.  The connection object  *)
(* is self.conn; what the server answers, and whether the socket calls     *)
(* fail, is chosen by the environment.                                     *)
(***************************************************************************)
MaxAttempts == 2

Nonces == {1, 2}

Returned_ok == [kind |-> "returned", reason |-> ""]

Raised(reason) == [kind |-> "raised", reason |-> reason]

Dict(type, hasmsg, msg) == [kind |-> "dict", type |-> type, hasmsg |-> hasmsg, msg |-> msg]

\* What recv_dict(['type'], timeout_sec) can give: None after the timeout,
\* (or False, as NetClient.recv does), a dictionary with a 'type', or an
\* exception.
Responses ==
    { [kind |-> "None",  type |-> "", hasmsg |-> FALSE, msg |-> ""],
      [kind |-> "False", type |-> "", hasmsg |-> FALSE, msg |-> ""],
      [kind |-> "raise", type |-> "", hasmsg |-> FALSE, msg |-> ""],
      Dict("welcome", TRUE, "Welcome alice"), Dict("welcome", FALSE, ""),
      Dict("error", TRUE, "Invalid signature"), Dict("error", TRUE, "Unknown user"),
      Dict("error", FALSE, ""),
      Dict("friends", TRUE, "x"), Dict("login", FALSE, "") }

\* connect() without its last test: every type but 'error' is accepted.
connect_result_any_type(res) ==
    IF res.kind = "raise" THEN Raised("recv_dict")
    ELSE IF res.kind = "None" THEN Raised("Receive timeout")
    ELSE IF res.kind = "False" THEN Raised("TypeError")
    ELSE IF res.type = "error"
    THEN (IF res.hasmsg THEN Raised(res.msg) ELSE Raised("KeyError"))
    ELSE IF ~res.hasmsg THEN Raised("KeyError")
    ELSE Returned_ok

\* connect() from `res = self.conn.recv_dict(...)` to its end.
connect_result(res) ==
    IF res.kind = "raise" THEN Raised("recv_dict")
    ELSE IF res.kind = "None" THEN Raised("Receive timeout")
    ELSE IF res.kind = "False" THEN Raised("TypeError")
    ELSE IF res.type = "error"
    THEN (IF res.hasmsg THEN Raised(res.msg) ELSE Raised("KeyError"))
    ELSE IF res.type # "welcome" THEN Raised("Received invalid type")
    ELSE IF ~res.hasmsg THEN Raised("KeyError")
    ELSE Returned_ok

InitConn ==
    /\ cconn = "None" /\ cpc = "idle" /\ cnonce = 0 /\ cwire = <<>>
    /\ cresp = NoResp /\ cres = NoResult /\ cattempts = 0
    /\ HPark /\ SInit /\ RInit /\ MPark /\ XPark

\* connect() is called: self.conn.connect() returns at once on an open
\* connection, else it opens one.
ConnectCall ==
    /\ cpc = "idle" /\ cattempts < MaxAttempts
    /\ cattempts' = cattempts + 1
    /\ cconn' = "open"
    /\ cwire' = IF cconn = "open" THEN cwire ELSE <<>>
    /\ cpc' = "hello" /\ cresp' = NoResp /\ cres' = NoResult
    /\ UNCHANGED <<cnonce, hvars, svars, rvars, mvars, xvars>>

\* self.conn.connect() raises: no connection.
ConnectRefused ==
    /\ cpc = "idle" /\ cattempts < MaxAttempts /\ cconn = "None"
    /\ cattempts' = cattempts + 1
    /\ cresp' = NoResp /\ cres' = Raised("connect")
    /\ UNCHANGED <<cconn, cpc, cnonce, cwire, hvars, svars, rvars, mvars, xvars>>

\* The login dictionary with a fresh nonce is sent.
SendHello ==
    /\ cpc = "hello"
    /\ \E n \in Nonces :
         /\ cnonce' = n
         /\ cwire' = Append(cwire, [type |-> "login", user |-> "alice", nonce |-> n])
    /\ cpc' = "wait"
    /\ UNCHANGED <<cconn, cresp, cres, cattempts, hvars, svars, rvars, mvars, xvars>>

\* send_dict raises.
SendHelloFails ==
    /\ cpc = "hello"
    /\ cpc' = "idle" /\ cres' = Raised("send_dict")
    /\ UNCHANGED <<cconn, cnonce, cwire, cresp, cattempts, hvars, svars, rvars, mvars, xvars>>

\* recv_dict gives res and connect() ends.
RecvResponse ==
    /\ cpc = "wait"
    /\ \E res \in Responses :
         /\ cresp' = res
         /\ cres' = connect_result(res)
    /\ cpc' = "idle"
    /\ UNCHANGED <<cconn, cnonce, cwire, cattempts, hvars, svars, rvars, mvars, xvars>>

\* RetroClient.close()
ClientClose ==
    /\ cpc = "idle" /\ cconn = "open"
    /\ cconn' = "None"
    /\ UNCHANGED <<cpc, cnonce, cwire, cresp, cres, cattempts, hvars, svars, rvars, mvars, xvars>>

NextConn ==
    \/ ConnectCall \/ ConnectRefused \/ SendHello \/ SendHelloFails
    \/ RecvResponse \/ ClientClose

SpecConn == InitConn /\ [][NextConn]_vars

\* C10: connect() returns normally only if the first response after the
\* login hello is the success response ('welcome'); a receive timeout, an
\* error response or any other type makes it raise, with the server's
\* reason as the exception's message for an error response.
C10_Handshake ==
    (cpc = "idle" /\ cres.kind # "none") =>
        /\ cres.kind = "returned" =>
              (cresp.kind = "dict" /\ cresp.type = "welcome" /\ Len(cwire) >= 1)
        /\ cresp.kind = "None" => cres = Raised("Receive timeout")
        /\ (cresp.kind = "dict" /\ cresp.type = "error") => cres.kind = "raised"
        /\ (cresp.kind = "dict" /\ cresp.type = "error" /\ cresp.hasmsg)
              => cres = Raised(cresp.msg)
        /\ (cresp.kind = "dict" /\ cresp.type \notin {"welcome", "error"})
              => cres.kind = "raised"

\* C10 witness: a second connect() got 'welcome' and returned, after a
\* first one was refused with the server's reason.
C10_Witness ==
    /\ cpc = "idle" /\ cattempts = 2 /\ cres.kind = "returned"
    /\ cresp = Dict("welcome", TRUE, "Welcome alice")
    /\ Len(cwire) = 2

\* C11: whenever the login handshake of connect() fails after the
\* connection was opened (receive timeout, error response, unexpected
\* response type), the connection is closed when connect() hands control
\* back to the caller.
C11_ClosedOnFailure ==
    [][(cpc = "wait" /\ cpc' = "idle" /\ cres'.kind = "raised") => cconn' = "None"]_vars

(***************************************************************************)
(* AccountCreator.create_account: register with the server, then create    *)
(* the account directory.  The server's packets, the user's input and the  *)
(* failures of the file system are inputs.                                 *)
(***************************************************************************)
T_ERROR == 2

T_REGISTER == 4

T_PUBKEY == 5

\* the user id that the server hands out
NewUserId == <<1, 2>>

\* What conn.recv_packet(timeout_sec) can give to the account creator.
CreatorPackets ==
    { Ret(PyFalse), Ret(PyBytes(<<>>)), Raise("recv_packet"),
      RetTuple(T_ERROR, PyBytes(<<9>>)), RetTuple(T_ERROR, PyNone),
      RetTuple(T_SUCCESS, PyBytes(NewUserId)), RetTuple(T_SUCCESS, PyNone),
      RetTuple(T_CHATMSG, PyNone) }

\* `if not pckt` for a result of recv_packet: a tuple is never falsy.
NotPckt(pckt) == pckt.kind = "value" /\ Falsy(pckt.val)

\* The end of create_account: its result, by return or by exception.
\* Nothing else is done on the way out.
Finish(result) ==
    /\ apc' = "done" /\ ares' = result

\* another user id the server may assign
OtherUserId == <<2, 2, 2, 2, 2, 2, 2, 2>>

\* __handshake: userid = pckt[1]
handshake_userid(pckt) == pckt.val

\* a slip: the row is written with another id than the one received
stored_userid_other(userid) == PyBytes(NewUserId)

\* AccountDb.create: INSERT INTO account VALUES (userid, username, rsa, ec)
stored_userid(userid) == userid

otherA == <<netvars, stvars, fvars, lvars, uvars, dvars, bvars, nvars, kvars, qvars, gvars, wvars, bnvars>>

InitCreate ==
    /\ apc = "idle" /\ ain = NoInput /\ aconn = "None" /\ asent = <<>>
    /\ apckt = NoRet /\ afs = {} /\ ares = "none"
    /\ NetPark /\ StPark /\ FPark /\ LPark /\ UPark /\ DPark /\ BPark /\ NPark /\ KPark /\ IdPark /\ QPark /\ GPark /\ WPark /\ BnPark

\* create_account(regkey_file, is_bot, validate_password) is called and
\* __handshake loads the configs and the registration key.
CreateAccount ==
    /\ apc = "idle"
    /\ \E b \in BOOLEAN, v \in BOOLEAN : ain' = [is_bot |-> b, validate |-> v]
    /\ apc' = "connect"
    /\ UNCHANGED <<aconn, asent, apckt, afs, ares, otherA, idvars>>

\* conf.load() or regkey.read_file() raises: __handshake returns None,None.
HandshakeLoadFails ==
    /\ apc = "idle"
    /\ \E b \in BOOLEAN, v \in BOOLEAN : ain' = [is_bot |-> b, validate |-> v]
    /\ Finish("False")
    /\ UNCHANGED <<aconn, asent, apckt, afs, otherA, idvars>>

\* conn.connect(); conn.send_packet(Proto.T_REGISTER, regkey.bytes())
HandshakeConnect ==
    /\ apc = "connect"
    /\ \/ /\ aconn' = "open" /\ asent' = Append(asent, T_REGISTER)
          /\ apc' = "regwait" /\ UNCHANGED ares
       \/ \* connect() raises
          /\ Finish("False") /\ UNCHANGED <<aconn, asent>>
       \/ \* send_packet raises on the open connection
          /\ aconn' = "open" /\ Finish("False") /\ UNCHANGED asent
    /\ UNCHANGED <<ain, apckt, afs, otherA, idvars>>

\* pckt = conn.recv_packet(timeout_sec=5) and the tests on it.
HandshakeRecv ==
    /\ apc = "regwait"
    /\ \E pckt \in CreatorPackets \cup {RetTuple(T_SUCCESS, PyBytes(OtherUserId))} :
         /\ apckt' = pckt
         /\ arecv' = Append(arecv, pckt)
         /\ auserid' = IF pckt.kind = "tuple" /\ pckt.type = T_SUCCESS
                          /\ pckt.val.py = "bytes"
                       THEN handshake_userid(pckt) ELSE auserid
         /\ IF pckt.kind = "raise"
            THEN Finish("False") /\ UNCHANGED aconn
            ELSE IF NotPckt(pckt)
            THEN aconn' = "closed" /\ Finish("False")
            ELSE IF pckt.type = T_ERROR
            THEN IF pckt.val.py = "bytes"
                 THEN aconn' = "closed" /\ Finish("False")
                 ELSE Finish("raised") /\ UNCHANGED aconn
            ELSE IF pckt.type # T_SUCCESS
            THEN aconn' = "closed" /\ Finish("False")
            ELSE IF pckt.val.py = "bytes"
                 THEN apc' = "username" /\ UNCHANGED <<aconn, ares>>
                 ELSE Finish("raised") /\ UNCHANGED aconn
    /\ UNCHANGED <<ain, asent, afs, adbid, otherA>>

\* What the user types for the name: nothing, Ctrl-C, a name that
\* validate_username rejects, the name of an existing account, a new name.
UsernameInputs == {"empty", "interrupt", "invalid", "exists", "ok"}

\* What the user types for the password.
PasswordInputs == {"empty", "insecure", "mismatch", "ok"}

\* username = self.__read_username(is_bot); if not username: return False
ReadUsername ==
    /\ apc = "username"
    /\ \E u \in UsernameInputs :
         IF u = "ok" THEN apc' = "password" /\ UNCHANGED ares
                     ELSE Finish("False")
    /\ UNCHANGED <<ain, aconn, asent, apckt, afs, otherA, idvars>>

\* password = self.__read_password(validate_password);
\* if not password: return False; then the keys are generated.
ReadPassword ==
    /\ apc = "password"
    /\ \E p \in PasswordInputs :
         IF p = "ok" \/ (p = "insecure" /\ ~ain.validate)
         THEN apc' = "pubkey" /\ UNCHANGED ares
         ELSE Finish("False")
    /\ UNCHANGED <<ain, aconn, asent, apckt, afs, otherA, idvars>>

\* __send_pubkey: conn.send_packet(Proto.T_PUBKEY, pem), which may raise.
SendPubkey ==
    /\ apc = "pubkey"
    /\ \/ asent' = Append(asent, T_PUBKEY) /\ apc' = "pubwait" /\ UNCHANGED ares
       \/ Finish("raised") /\ UNCHANGED asent
    /\ UNCHANGED <<ain, aconn, apckt, afs, otherA, idvars>>

\* __send_pubkey: pckt = conn.recv_packet(timeout_sec=10) and the tests on
\* it; back in create_account `if not ok: return False`, else conn.close().
RecvPubkeyAck ==
    /\ apc = "pubwait"
    /\ \E pckt \in CreatorPackets :
         /\ apckt' = pckt
         /\ IF pckt.kind = "raise"
            THEN Finish("raised") /\ UNCHANGED aconn
            ELSE IF NotPckt(pckt)
            THEN Finish("False") /\ UNCHANGED aconn
            ELSE IF pckt.type = T_ERROR
            THEN IF pckt.val.py = "bytes"
                 THEN Finish("False") /\ UNCHANGED aconn
                 ELSE Finish("raised") /\ UNCHANGED aconn
            ELSE IF pckt.type # T_SUCCESS
            THEN Finish("False") /\ UNCHANGED aconn
            ELSE aconn' = "closed" /\ apc' = "mkdir" /\ UNCHANGED ares
         /\ arecv' = Append(arecv, pckt)
    /\ UNCHANGED <<ain, asent, afs, auserid, adbid, otherA>>

\* A step of the try block of create_account that creates `made` when it
\* works; when it raises, having created `partial`, the except branch
\* prints the error and returns False.
LocalStep(pc, made, partials, next) ==
    /\ apc = pc
    /\ \/ afs' = afs \cup made /\ apc' = next
          /\ ares' = (IF next = "done" THEN "True" ELSE ares)
          /\ adbid' = (IF "account.db" \in made THEN stored_userid(auserid) ELSE adbid)
       \/ \E partial \in partials :
             afs' = afs \cup partial /\ Finish("False") /\ UNCHANGED adbid
    /\ UNCHANGED <<ain, aconn, asent, apckt, auserid, arecv, otherA>>

\* os_mkdir(accpath)
MkAccDir == LocalStep("mkdir", {"accpath"}, {{}}, "salt")

\* create_salt_file(salt_file, saltlen=32); derive_key(password, salt, 16)
CreateSalt == LocalStep("salt", {".salt"}, {{}, {".salt"}}, "db")

\* AccountDb(accpath).create(master_key, userid, username, key): the
\* database file exists from sqlcipher.connect on. A bot has no msg
\* directory, so its create_account ends here.
DbCreate ==
    LocalStep("db", {"account.db"}, {{}, {"account.db"}},
              IF ain.is_bot THEN "done" ELSE "msgdir")

\* os_mkdir(path_join(accpath, "msg")); return True
MkMsgDir == LocalStep("msgdir", {"msg"}, {{}}, "done")

NextCreate ==
    \/ CreateAccount \/ HandshakeLoadFails \/ HandshakeConnect \/ HandshakeRecv
    \/ ReadUsername \/ ReadPassword \/ SendPubkey \/ RecvPubkeyAck
    \/ MkAccDir \/ CreateSalt \/ DbCreate \/ MkMsgDir

SpecCreate == InitCreate /\ [][NextCreate]_vars

\* C12: on every path where create_account returns failure after the
\* connection to the server was opened, the connection has been closed.
C12_ClosedOnFailure ==
    (apc = "done" /\ ares = "False") => aconn # "open"

\* C13: whenever create_account returns failure, nothing that the call
\* created (account directory, .salt, account.db) is left behind.
C13_NoPartialState ==
    (apc = "done" /\ ares = "False") => afs = {}

(***************************************************************************)
(* MsgStore.py: the cache of open conversations (MsgStore) over one        *)
(* encrypted database per friend (MsgDB).  A database is its msg table, a  *)
(* sequence of rows in rowid order; the row of a file message carries the  *)
(* _downloaded flag of its row in the files table.                         *)
(***************************************************************************)
T_FILEMSG == 11

\* the default of close_conversation_after, 5*60 seconds
DefaultCloseAfter == 5 * 60

\* the age at which _close_unused_conversations closes a conversation
SweepAge == 20 * 60

\* the values given for close_conversation_after
CloseAfterSamples == {DefaultCloseAfter, SweepAge}

\* the seconds that pass between two calls
ClockSteps == {700}

MaxClock == 1400

\* the rows of one database (MsgDB on its own)
MaxRows == 2

\* the rows of all databases of a store
MaxMsgs == 1

\* the 'time' texts of messages, in their text order
MsgTimes == {1, 2}

MsgSamples ==
    [type : {T_CHATMSG, T_FILEMSG}, time : MsgTimes, unseen : {0, 1}]

\* the messages given to a store: an unseen chat message, a seen file
\* message with an earlier 'time'
StoreMsgs ==
    { [type |-> T_CHATMSG, time |-> 2, unseen |-> 1],
      [type |-> T_FILEMSG, time |-> 1, unseen |-> 0] }

\* the last_n arguments of get_msgs: None, 0, 1, 2, 3
NoLastN == -1

LastNSamples == {NoLastN, 0, 1, 2, 3}

\* the msg_type arguments of get_msgs: None, T_CHATMSG, T_FILEMSG
NoType == 0

TypeFilters == {NoType, T_CHATMSG, T_FILEMSG}

RECURSIVE MaxId(_)
\* SELECT max(_id) FROM msg
MaxId(rows) ==
    IF rows = <<>> THEN 0
    ELSE LET m == MaxId(Tail(rows))
         IN  IF Head(rows).id > m THEN Head(rows).id ELSE m

\* MsgDB.add_msg: INSERT INTO msg (and INTO files for a file message);
\* an INTEGER PRIMARY KEY gets the largest _id plus one.
db_add_msg(rows, msg) ==
    Append(rows, [id |-> MaxId(rows) + 1, type |-> msg.type, time |-> msg.time,
                  unseen |-> msg.unseen, downloaded |-> 0])

RECURSIVE SelectWhere(_, _)
\* the rows with the given _type (every row if there is no type)
SelectWhere(rows, pckt_type) ==
    IF rows = <<>> THEN <<>>
    ELSE IF pckt_type = NoType \/ Head(rows).type = pckt_type
         THEN <<Head(rows)>> \o SelectWhere(Tail(rows), pckt_type)
         ELSE SelectWhere(Tail(rows), pckt_type)

RECURSIVE Insert(_, _)
\* r put into a list sorted by _time, behind the rows of the same _time
Insert(r, sorted) ==
    IF sorted = <<>> THEN <<r>>
    ELSE IF r.time < Head(sorted).time THEN <<r>> \o sorted
    ELSE <<Head(sorted)>> \o Insert(r, Tail(sorted))

RECURSIVE OrderByTime(_)
\* ORDER BY _time
OrderByTime(rows) ==
    IF rows = <<>> THEN <<>>
    ELSE Insert(rows[Len(rows)], OrderByTime(SubSeq(rows, 1, Len(rows) - 1)))

\* Python's msgs[-last_n:] for last_n >= 0: -0 is 0, so msgs[-0:] is the
\* whole list.
TailSlice(msgs, last_n) ==
    IF last_n = 0 \/ last_n >= Len(msgs) THEN msgs
    ELSE SubSeq(msgs, Len(msgs) - last_n + 1, Len(msgs))

\* MsgDB.get_msgs(last_n, pckt_type)
db_get_msgs(rows, last_n, pckt_type) ==
    LET msgs == OrderByTime(SelectWhere(rows, pckt_type))
    IN  IF last_n # NoLastN THEN TailSlice(msgs, last_n) ELSE msgs

\* MsgDB.delete_msg: DELETE FROM msg WHERE _id=?
db_delete_msg(rows, msgid) == SelectSeq(rows, LAMBDA r : r.id # msgid)

\* a slip: the flag is flipped
db_set_all_seen_flip(rows) ==
    [i \in 1..Len(rows) |-> [rows[i] EXCEPT !.unseen = 1 - @]]

\* MsgDB.set_all_seen: UPDATE msg SET _unseen=0
db_set_all_seen(rows) ==
    [i \in 1..Len(rows) |-> [rows[i] EXCEPT !.unseen = 0]]

\* MsgDB.get_num_unseen: SELECT count(*) FROM msg WHERE _unseen=1
db_get_num_unseen(rows) == Len(SelectSeq(rows, LAMBDA r : r.unseen = 1))

\* MsgDB.set_file_downloaded: UPDATE files SET _downloaded=1 WHERE
\* _fileid=?  (the file of message msgid)
db_set_file_downloaded(rows, msgid) ==
    [i \in 1..Len(rows) |->
        IF rows[i].id = msgid /\ rows[i].type = T_FILEMSG
        THEN [rows[i] EXCEPT !.downloaded = 1] ELSE rows[i]]

\* self.db.commit(): the rows of the connection are written to the file
commit(disk, view) == view

\* What a method of MsgDB does: the rows its connection sees after it,
\* whether it has committed them, the value it returns, the exception it
\* raises ("" if none), whether it sets last_action.
Done(rows, commits, val, touch) ==
    [rows |-> rows, commits |-> commits, val |-> val, exc |-> "", touch |-> touch]

Raises(rows, exc) ==
    [rows |-> rows, commits |-> FALSE, val |-> <<>>, exc |-> exc, touch |-> FALSE]

\* MsgDB.add_msg(msg), with `if not self.db: raise ValueError`
msgdb_add_msg(dbopen, rows, msg) ==
    IF ~dbopen THEN Raises(rows, "Database closed")
    ELSE Done(db_add_msg(rows, msg), TRUE, MaxId(rows) + 1, TRUE)

\* MsgDB.get_msgs(last_n, pckt_type), with `if not self.db: raise ValueError`
msgdb_get_msgs(dbopen, rows, last_n, pckt_type) ==
    IF ~dbopen THEN Raises(rows, "Database closed")
    ELSE Done(rows, FALSE, db_get_msgs(rows, last_n, pckt_type), TRUE)

\* MsgDB.delete_msg(msgid): self.db.execute raises on a closed database
\* (self.db is None); for an id that is not in the table
\* __row_to_msg(None) raises TypeError.
msgdb_delete_msg(dbopen, rows, msgid) ==
    IF ~dbopen THEN Raises(rows, "Database closed")
    ELSE IF \A i \in 1..Len(rows) : rows[i].id # msgid THEN Raises(rows, "TypeError")
    ELSE Done(db_delete_msg(rows, msgid), TRUE, <<>>, FALSE)

\* MsgDB.set_all_seen()
msgdb_set_all_seen(dbopen, rows) ==
    IF ~dbopen THEN Raises(rows, "Database closed")
    ELSE Done(db_set_all_seen(rows), TRUE, <<>>, FALSE)

\* MsgDB.get_num_unseen()
msgdb_get_num_unseen(dbopen, rows) ==
    IF ~dbopen THEN Raises(rows, "Database closed")
    ELSE Done(rows, FALSE, db_get_num_unseen(rows), FALSE)

\* MsgDB.set_file_downloaded(fileid)
msgdb_set_file_downloaded(dbopen, rows, msgid) ==
    IF ~dbopen THEN Raises(rows, "Database closed")
    ELSE Done(db_set_file_downloaded(rows, msgid), TRUE, <<>>, FALSE)

\* MsgStore._open_conversation(friend) at time t: MsgDB() sets last_action
\* and open() connects the database file of the friend.
open_conversation(convs, f, t, disk) ==
    IF ~convs[f].cached
    THEN [convs EXCEPT ![f] = [cached |-> TRUE, dbopen |-> TRUE,
                               last_action |-> t, view |-> disk[f]]]
    ELSE convs

\* a slip: the database is closed but the conversation stays in the cache
close_unused_conversations_no_pop(convs, t) ==
    [f \in Friends |->
        IF convs[f].cached /\ t - convs[f].last_action > SweepAge
        THEN [convs[f] EXCEPT !.dbopen = FALSE] ELSE convs[f]]

\* MsgStore._close_unused_conversations() at time t
close_unused_conversations(convs, t) ==
    [f \in Friends |->
        IF convs[f].cached /\ t - convs[f].last_action > SweepAge
        THEN Absent ELSE convs[f]]

\* What is known of a call when it ends: the call, its result, whether it
\* had to open the conversation, whether it follows a set_all_seen for the
\* same friend, the rows before it.
Res(op, f, args, r) ==
    [op |-> op, friend |-> f, raised |-> r.exc, val |-> r.val,
     args |-> IF op = "get_msgs" THEN args ELSE <<>>,
     reopened |-> ~stconv[f].cached,
     again |-> (stres.op = "set_all_seen" /\ stres.friend = f /\ stres.raised = ""),
     before |-> IF op = "set_all_seen" THEN stdb[f] ELSE <<>>]

otherSt == <<netvars, avars, fvars, lvars, uvars, dvars, bvars, nvars, kvars, idvars, qvars, gvars, wvars, bnvars>>

\* the ids that add_msg has returned for f and delete_msg has not deleted
Added(op, f, args, r) ==
    IF r.exc # "" THEN stadded[f]
    ELSE IF op = "add_msg" THEN stadded[f] \cup {r.val}
    ELSE IF op = "delete_msg" THEN stadded[f] \ {args}
    ELSE stadded[f]

\* A call of the store for friend f at time stnow: _open_conversation, the
\* method of the conversation, _close_unused_conversations.  If the method
\* raises, the call ends there.
StoreCall(op, f, args, r) ==
    LET c1 == open_conversation(stconv, f, stnow, stdb)
        c2 == [c1 EXCEPT ![f].view = r.rows,
                         ![f].last_action = IF r.touch THEN stnow ELSE @]
    IN  /\ stpc \in {"new", "returned", "ticked"}
        /\ stpc' = "returned"
        /\ stres' = Res(op, f, args, r)
        /\ stadded' = [stadded EXCEPT ![f] = Added(op, f, args, r)]
        /\ stdb' = IF r.commits THEN [stdb EXCEPT ![f] = commit(@, r.rows)] ELSE stdb
        /\ stconv' = IF r.exc # "" THEN c1 ELSE close_unused_conversations(c2, stnow)
        /\ UNCHANGED <<stnow, stafter, otherSt>>

\* the conversation of f once _open_conversation is through
Conv(f) == open_conversation(stconv, f, stnow, stdb)[f]

InitStore ==
    /\ stpc = "new" /\ stnow = 0
    /\ stafter \in CloseAfterSamples
    /\ stconv = [f \in Friends |-> Absent]
    /\ stdb = [f \in Friends |-> <<>>]
    /\ stadded = [f \in Friends |-> {}]
    /\ stres = NoOp
    /\ NetPark /\ APark /\ FPark /\ LPark /\ UPark /\ DPark /\ BPark /\ NPark /\ KPark /\ IdPark /\ QPark /\ GPark /\ WPark /\ BnPark

RowCount == Len(stdb["bob"]) + Len(stdb["carol"])

\* MsgStore.add_msg(friend, msg)
AddMsg ==
    /\ RowCount < MaxMsgs
    /\ \E f \in Friends, msg \in StoreMsgs :
         StoreCall("add_msg", f, msg, msgdb_add_msg(Conv(f).dbopen, Conv(f).view, msg))

\* MsgStore.get_msgs(friend, last_n, msg_type)
GetMsgs ==
    \E f \in Friends, a \in {<<NoLastN, NoType>>, <<1, T_CHATMSG>>} :
        StoreCall("get_msgs", f, a,
                  msgdb_get_msgs(Conv(f).dbopen, Conv(f).view, a[1], a[2]))

\* MsgStore.delete_msg(friend, msgid)
DeleteMsg ==
    \E f \in Friends, msgid \in 1..MaxMsgs :
        StoreCall("delete_msg", f, msgid,
                  msgdb_delete_msg(Conv(f).dbopen, Conv(f).view, msgid))

\* MsgStore.set_all_seen(friend)
SetAllSeen ==
    \E f \in Friends :
        StoreCall("set_all_seen", f, <<>>,
                  msgdb_set_all_seen(Conv(f).dbopen, Conv(f).view))

\* MsgStore.get_num_unseen(friend)
GetNumUnseen ==
    \E f \in Friends :
        StoreCall("get_num_unseen", f, <<>>,
                  msgdb_get_num_unseen(Conv(f).dbopen, Conv(f).view))

\* MsgStore.set_file_downloaded(friend, fileid)
SetFileDownloaded ==
    \E f \in Friends, msgid \in 1..MaxMsgs :
        StoreCall("set_file_downloaded", f, msgid,
                  msgdb_set_file_downloaded(Conv(f).dbopen, Conv(f).view, msgid))

\* time_now() moves on between two calls
Tick ==
    /\ stpc \in {"new", "returned", "ticked"}
    /\ \E d \in ClockSteps : stnow + d <= MaxClock /\ stnow' = stnow + d
    /\ stpc' = "ticked"
    /\ UNCHANGED <<stafter, stconv, stdb, stadded, stres, otherSt>>

\* MsgStore.close(), at the teardown of the account: every database is
\* closed; the conversations stay in the dictionary.
StoreClose ==
    /\ stpc \in {"new", "returned", "ticked"}
    /\ stpc' = "closed"
    /\ stconv' = [f \in Friends |-> [stconv[f] EXCEPT !.dbopen = FALSE]]
    /\ UNCHANGED <<stnow, stafter, stdb, stadded, stres, otherSt>>

NextStore ==
    \/ AddMsg \/ GetMsgs \/ DeleteMsg \/ SetAllSeen \/ GetNumUnseen
    \/ SetFileDownloaded \/ Tick \/ StoreClose

SpecStore == InitStore /\ [][NextStore]_vars

\* a call of the store has just returned (it did not raise)
StoreReturned == stpc = "returned" /\ stres.raised = ""

\* C14: after every MsgStore operation returns, no conversation remains in
\* the cache whose idle time (now - last_action) exceeds the idle timeout
\* that the store was given as close_conversation_after.
C14_IdleWithinTimeout ==
    StoreReturned =>
        \A f \in Friends :
            stconv[f].cached => stnow - stconv[f].last_action <= stafter

\* the ids of a list of rows
Ids(rows) == { rows[i].id : i \in 1..Len(rows) }

C17_SetAllSeenIdempotent ==
    StoreReturned =>
        /\ (stres.op = "set_all_seen" /\ stres.again)
              => stdb[stres.friend] = stres.before
        /\ stres.op = "set_all_seen"
              => db_get_num_unseen(stdb[stres.friend]) = 0
        /\ (stres.op = "get_num_unseen" /\ stres.again) => stres.val = 0

\* C17 witness: a second set_all_seen in a row on a conversation with a
\* message that was unseen when it was added.
C17_Witness ==
    /\ StoreReturned /\ stres.op = "set_all_seen" /\ stres.again
    /\ stres.before # <<>> /\ stres.before[1].type = T_CHATMSG
    /\ stdb[stres.friend] = stres.before

(***************************************************************************)
(* One MsgDB on its own: the conversation with bob, opened, used and       *)
(* closed by its methods.                                                   *)
(***************************************************************************)
\* MsgDB(): self.db = None
InitMsgDB ==
    /\ stpc = "db" /\ stnow = 0 /\ stafter = DefaultCloseAfter
    /\ stconv = [f \in Friends |->
                   IF f = "bob" THEN [Absent EXCEPT !.cached = TRUE] ELSE Absent]
    /\ stdb = [f \in Friends |-> <<>>]
    /\ stadded = [f \in Friends |-> {}]
    /\ stres = NoOp
    /\ NetPark /\ APark /\ FPark /\ LPark /\ UPark /\ DPark /\ BPark /\ NPark /\ KPark /\ IdPark /\ QPark /\ GPark /\ WPark /\ BnPark

\* A method of the MsgDB of bob is called.
MsgDbCall(op, args, r) ==
    /\ stpc = "db"
    /\ stres' = Res(op, "bob", args, r)
    /\ stadded' = [stadded EXCEPT !["bob"] = Added(op, "bob", args, r)]
    /\ stdb' = IF r.commits THEN [stdb EXCEPT !["bob"] = commit(@, r.rows)] ELSE stdb
    /\ stconv' = [stconv EXCEPT !["bob"].view = r.rows,
                                !["bob"].last_action = IF r.touch THEN stnow ELSE @]
    /\ UNCHANGED <<stpc, stnow, stafter, otherSt>>

\* MsgDB.open(path, password)
DbOpen ==
    /\ stpc = "db" /\ ~stconv["bob"].dbopen
    /\ stconv' = [stconv EXCEPT !["bob"].dbopen = TRUE, !["bob"].view = stdb["bob"]]
    /\ UNCHANGED <<stpc, stnow, stafter, stdb, stadded, stres, otherSt>>

\* MsgDB.close()
DbClose ==
    /\ stpc = "db" /\ stconv["bob"].dbopen
    /\ stconv' = [stconv EXCEPT !["bob"].dbopen = FALSE, !["bob"].view = <<>>]
    /\ UNCHANGED <<stpc, stnow, stafter, stdb, stadded, stres, otherSt>>

\* MsgDB.add_msg(msg)
DbAddMsg ==
    /\ Len(stdb["bob"]) < MaxRows
    /\ \E msg \in MsgSamples :
         MsgDbCall("add_msg", msg,
                   msgdb_add_msg(stconv["bob"].dbopen, stconv["bob"].view, msg))

\* MsgDB.get_msgs(last_n, pckt_type)
DbGetMsgs ==
    \E n \in LastNSamples, t \in TypeFilters :
        MsgDbCall("get_msgs", <<n, t>>,
                  msgdb_get_msgs(stconv["bob"].dbopen, stconv["bob"].view, n, t))

\* MsgDB.delete_msg(msgid)
DbDeleteMsg ==
    \E msgid \in 1..MaxRows :
        MsgDbCall("delete_msg", msgid,
                  msgdb_delete_msg(stconv["bob"].dbopen, stconv["bob"].view, msgid))

\* MsgDB.set_all_seen()
DbSetAllSeen ==
    MsgDbCall("set_all_seen", <<>>,
              msgdb_set_all_seen(stconv["bob"].dbopen, stconv["bob"].view))

\* MsgDB.get_num_unseen()
DbGetNumUnseen ==
    MsgDbCall("get_num_unseen", <<>>,
              msgdb_get_num_unseen(stconv["bob"].dbopen, stconv["bob"].view))

\* MsgDB.set_file_downloaded(fileid)
DbSetFileDownloaded ==
    \E msgid \in 1..MaxRows :
        MsgDbCall("set_file_downloaded", msgid,
                  msgdb_set_file_downloaded(stconv["bob"].dbopen, stconv["bob"].view, msgid))

NextMsgDB ==
    \/ DbOpen \/ DbClose \/ DbAddMsg \/ DbGetMsgs \/ DbDeleteMsg
    \/ DbSetAllSeen \/ DbGetNumUnseen \/ DbSetFileDownloaded

SpecMsgDB == InitMsgDB /\ [][NextMsgDB]_vars

\* the stored messages of bob that get_msgs was asked for
Requested == SelectWhere(stdb["bob"], stres.args[2])

\* C16: get_msgs(last_n, type) returns the stored messages of the requested
\* type in ascending _time order; with last_n given it returns exactly the
\* last min(last_n, total) of them, for every last_n >= 0, 0 included.
C16_GetMsgsLastN ==
    (stpc = "db" /\ stres.op = "get_msgs" /\ stres.raised = "") =>
        LET val   == stres.val
            n     == stres.args[1]
            total == Len(Requested)
            k     == IF n = NoLastN \/ n >= total THEN total ELSE n
            full  == OrderByTime(Requested)
        IN  /\ \A i \in 1..Len(val) - 1 : val[i].time <= val[i + 1].time
            /\ Ids(val) \subseteq Ids(Requested)
            /\ Len(val) = k
            /\ val = SubSeq(full, total - k + 1, total)

(***************************************************************************)
(* FriendDb.py: the friends table, rows in the order of their insertion.   *)
(* Every method opens the database, runs its statement, commits, closes.   *)
(***************************************************************************)
\* the user ids and names of the friends that are added
FriendIds == {1, 2, 3}

FriendNames == {"bob", "carol"}

\* a slip: the column is not declared UNIQUE
unique_unchecked(table, id) == TRUE

\* _id BLOB UNIQUE NOT NULL: whether a row with this _id may be inserted
unique_ok(table, id) == \A i \in 1..Len(table) : table[i].id # id

\* What is known of a call of the friend database when it ends.
FRes(op, id, name, raised, val) ==
    [op |-> op, id |-> id, name |-> name, raised |-> raised, val |-> val,
     before |-> ftable]

otherF == <<netvars, avars, stvars, lvars, uvars, dvars, bvars, nvars, kvars, idvars, qvars, gvars, wvars, bnvars>>

InitFriends ==
    /\ ftable = <<>> /\ fres = NoCall
    /\ NetPark /\ APark /\ StPark /\ LPark /\ UPark /\ DPark /\ BPark /\ NPark /\ KPark /\ IdPark /\ QPark /\ GPark /\ WPark /\ BnPark

\* FriendDb.add(friend): the INSERT raises sqlite's IntegrityError if the
\* _id is in the table, and then nothing is committed.
FriendAdd ==
    /\ \E id \in FriendIds, name \in FriendNames :
         IF unique_ok(ftable, id)
         THEN /\ ftable' = Append(ftable, [id |-> id, name |-> name])
              /\ fres' = FRes("add", id, name, "", <<>>)
         ELSE /\ UNCHANGED ftable
              /\ fres' = FRes("add", id, name, "IntegrityError", <<>>)
    /\ UNCHANGED otherF

\* FriendDb.delete_by_id(userid)
FriendDeleteById ==
    /\ \E id \in FriendIds :
         /\ ftable' = SelectSeq(ftable, LAMBDA r : r.id # id)
         /\ fres' = FRes("delete_by_id", id, "", "", <<>>)
    /\ UNCHANGED otherF

\* FriendDb.load_all(): a dictionary from _id to the friend of the row
\* (of the last row with that _id)
FriendLoadAll ==
    /\ fres' = FRes("load_all", 0, "", "",
                    { <<ftable[i].id, ftable[i].name>> : i \in
                        { j \in 1..Len(ftable) :
                            \A k \in j + 1..Len(ftable) : ftable[k].id # ftable[j].id } })
    /\ UNCHANGED <<ftable, otherF>>

\* FriendDb.get_id(username): the _id of the first row with the name;
\* fetchone()[0] raises TypeError if there is none.
FriendGetId ==
    /\ \E name \in FriendNames :
         LET hits == SelectSeq(ftable, LAMBDA r : r.name = name)
         IN  fres' = IF hits = <<>> THEN FRes("get_id", 0, name, "TypeError", <<>>)
                     ELSE FRes("get_id", 0, name, "", hits[1].id)
    /\ UNCHANGED <<ftable, otherF>>

\* FriendDb.get_name(userid)
FriendGetName ==
    /\ \E id \in FriendIds :
         LET hits == SelectSeq(ftable, LAMBDA r : r.id = id)
         IN  fres' = IF hits = <<>> THEN FRes("get_name", id, "", "TypeError", <<>>)
                     ELSE FRes("get_name", id, "", "", hits[1].name)
    /\ UNCHANGED <<ftable, otherF>>

NextFriends ==
    \/ FriendAdd \/ FriendDeleteById \/ FriendLoadAll \/ FriendGetId
    \/ FriendGetName

SpecFriends == InitFriends /\ [][NextFriends]_vars

MaxLoads == 4

LoadUsers == {"alice", "nobody"}

LoadPasswords == {"right", "wrong"}

\* the key files of alice's account: sound, key.pem damaged, key.pem
\* missing, no public key file
DiskStates == {"ok", "corrupt", "nokey", "nopubkey"}

\* Account.__load_keys with the password pw: the exception it raises
\* ("" if none)
load_keys_exc(pw, disk) ==
    IF disk = "nokey" THEN "FileNotFoundError"
    ELSE IF disk = "corrupt" \/ pw # "right" THEN "ValueError"
    ELSE ""

\* Account.load_friends: self.friendDb.get_all() -- FriendDb has no method
\* get_all (it has load_all), so the call raises AttributeError.
load_friends_exc == "AttributeError"

\* Account.load(username, password) on a new Account: the fields it has
\* set when it ends, and the exception it raises.
account_load(acc, username, password, disk) ==
    LET a1 == [acc EXCEPT !.path = username]
        a2 == [a1 EXCEPT !.name = username, !.pw = password]
        a3 == [a2 EXCEPT !.key = "loaded",
                         !.id = IF disk = "nopubkey" THEN "" ELSE "id-alice"]
        a4 == [a3 EXCEPT !.friendDb = TRUE]
    IN  IF username # "alice" THEN [acc |-> a1, exc |-> "FileNotFoundError"]
        ELSE IF load_keys_exc(password, disk) # ""
        THEN [acc |-> a2, exc |-> load_keys_exc(password, disk)]
        ELSE [acc |-> a4, exc |-> load_friends_exc]

otherL == <<netvars, avars, stvars, fvars, uvars, dvars, bvars, nvars, kvars, idvars, qvars, gvars, wvars, bnvars>>

InitLoad ==
    /\ lconn = 0 /\ laccount = NoAccount /\ lhandler = 0 /\ lstore = 0
    /\ ldisk \in DiskStates /\ lres = NoResult /\ lloads = 0
    /\ NetPark /\ APark /\ StPark /\ FPark /\ UPark /\ DPark /\ BPark /\ NPark /\ KPark /\ IdPark /\ QPark /\ GPark /\ WPark /\ BnPark

\* RetroClient.load_account(username, password): the n-th call makes the
\* n-th TLSClient and the n-th Account.
LoadAccount ==
    /\ lloads < MaxLoads
    /\ lloads' = lloads + 1
    /\ \E username \in LoadUsers, password \in LoadPasswords :
         LET n == lloads + 1
             r == account_load([NoAccount EXCEPT !.obj = n], username, password, ldisk)
         IN  /\ lconn' = n
             /\ laccount' = r.acc
             /\ IF r.exc # ""
                THEN lres' = Raised(r.exc) /\ UNCHANGED <<lhandler, lstore>>
                ELSE lres' = Returned_ok /\ lhandler' = n /\ lstore' = n
    /\ UNCHANGED <<ldisk, otherL>>

\* RetroClient.load(username, password) when conf.load() gives False:
\* return False
LoadNoConfig ==
    /\ lloads < MaxLoads
    /\ lloads' = lloads + 1
    /\ lres' = [kind |-> "returned", reason |-> "False"]
    /\ UNCHANGED <<lconn, laccount, lhandler, lstore, ldisk, otherL>>

NextLoad == LoadAccount \/ LoadNoConfig

SpecLoad == InitLoad /\ [][NextLoad]_vars

\* C19: if loading an account fails (missing account directory, wrong
\* passphrase, corrupt key material), the client is as it was before the
\* call: connection object, account and its fields, message handler and
\* message store are neither set nor replaced.
C19_FailedLoadKeepsState ==
    [][(lloads' # lloads /\ lres'.kind = "raised")
          => UNCHANGED <<lconn, laccount, lhandler, lstore>>]_vars

(***************************************************************************)
(* FileTransfer.upload_file: the encrypted file goes to the file server   *)
(* over a connection of its own, then the file message goes to the friend  *)
(* over the main session.  The file server's packets are inputs.           *)
(***************************************************************************)
T_FILE_UPLOAD == 31

MaxUploads == 2

\* the files given to upload_file: two that exist, one that does not
UploadFiles == {"a.txt", "b.bin", "missing"}

\* a slip: every packet counts as the acknowledgement
recv_ok_any(pckt) ==
    IF pckt.kind = "raise" \/ NotPckt(pckt) THEN "FileServer" ELSE ""

\* FileTransfer.__recv_ok for the result pckt of conn.recv_packet: the
\* exception it raises ("" if it returns the packet).  Only a packet of
\* type T_SUCCESS is returned.
recv_ok(pckt) ==
    IF pckt.kind = "raise" THEN "FileServer"
    ELSE IF NotPckt(pckt) THEN "FileServer: timeout"
    ELSE IF pckt.type = T_ERROR THEN "FileServer: error"
    ELSE IF pckt.type # T_SUCCESS THEN "FileTransfer: Invalid response type"
    ELSE ""

otherU == <<netvars, avars, stvars, fvars, lvars, dvars, bvars, nvars, kvars, idvars, qvars, gvars, wvars, bnvars>>

\* what upload_file sends on the file connection: the T_FILE_UPLOAD packet
\* (file id and blob length), then the raw encrypted blob
UploadPacket == [kind |-> "packet", type |-> T_FILE_UPLOAD]
Blob == [kind |-> "raw", type |-> 0]

\* upload_file ends with an exception
UploadRaise(e) == upc' = "idle" /\ ures' = Raised(e)

InitUpload ==
    /\ upc = "idle" /\ uarg = NoUpload /\ uconn = "None" /\ ufile = <<>>
    /\ uresp = <<>> /\ umain = <<>> /\ ures = NoResult /\ uloads = 0
    /\ NetPark /\ APark /\ StPark /\ FPark /\ LPark /\ DPark /\ BPark /\ NPark /\ KPark /\ IdPark /\ QPark /\ GPark /\ WPark /\ BnPark

\* upload_file(friend, filepath) is called: the file is read, compressed
\* and encrypted (or that fails).
UploadFile ==
    /\ upc = "idle" /\ uloads < MaxUploads
    /\ uloads' = uloads + 1
    /\ \E f \in Friends, file \in UploadFiles :
         /\ uarg' = [friend |-> f, file |-> file]
         /\ IF file = "missing"
            THEN UploadRaise("FileUpload") /\ UNCHANGED uconn
            ELSE upc' = "connect" /\ ures' = NoResult /\ uconn' = "None"
    /\ ufile' = <<>> /\ uresp' = <<>>
    /\ UNCHANGED <<umain, otherU>>

\* conn = self.__connect(); conn.send_packet(Proto.T_FILE_UPLOAD, fileid,
\* struct.pack('!I', len(data)))
UploadConnect ==
    /\ upc = "connect"
    /\ \/ /\ uconn' = "open" /\ ufile' = <<UploadPacket>>
          /\ upc' = "announced" /\ UNCHANGED ures
       \/ UploadRaise("connect") /\ UNCHANGED <<uconn, ufile>>
       \/ uconn' = "open" /\ UploadRaise("send_packet") /\ UNCHANGED ufile
    /\ UNCHANGED <<uarg, uresp, umain, uloads, otherU>>

\* self.__recv_ok(conn); conn.send(data)
UploadBlob ==
    /\ upc = "announced"
    /\ \E pckt \in CreatorPackets :
         /\ uresp' = Append(uresp, pckt)
         /\ IF recv_ok(pckt) # ""
            THEN UploadRaise(recv_ok(pckt)) /\ UNCHANGED ufile
            ELSE \/ ufile' = Append(ufile, Blob) /\ upc' = "streamed"
                    /\ UNCHANGED ures
                 \/ UploadRaise("send") /\ UNCHANGED ufile
    /\ UNCHANGED <<uarg, uconn, umain, uloads, otherU>>

\* self.__recv_ok(conn); conn.close(); make_file_msg;
\* self.cli.send_packet(Proto.T_FILEMSG, e2e_buffer); return.  The client
\* sends the packet on the main session, or raises.
UploadFileMsg ==
    /\ upc = "streamed"
    /\ \E pckt \in CreatorPackets :
         /\ uresp' = Append(uresp, pckt)
         /\ IF recv_ok(pckt) # ""
            THEN UploadRaise(recv_ok(pckt)) /\ UNCHANGED <<uconn, umain>>
            ELSE /\ uconn' = "closed"
                 /\ \/ /\ umain' = Append(umain,
                              [type |-> T_FILEMSG, to |-> uarg.friend,
                               file |-> uarg.file, upload |-> uloads])
                       /\ upc' = "idle" /\ ures' = Returned_ok
                    \/ UploadRaise("cli.send_packet") /\ UNCHANGED umain
    /\ UNCHANGED <<uarg, ufile, uloads, otherU>>

NextUpload == UploadFile \/ UploadConnect \/ UploadBlob \/ UploadFileMsg

SpecUpload == InitUpload /\ [][NextUpload]_vars

\* the acknowledgement of the file server
Ack(pckt) == pckt.kind = "tuple" /\ pckt.type = T_SUCCESS

\* the file message of the upload that runs or ran last is on the main
\* session
FileMsgSent ==
    \E i \in 1..Len(umain) : umain[i].type = T_FILEMSG /\ umain[i].upload = uloads

\* C20: in upload_file the encrypted blob is streamed only after the file
\* server answered T_FILE_UPLOAD with T_SUCCESS, and the T_FILEMSG is sent
\* on the main session only after the file server acknowledged the whole
\* blob with a second T_SUCCESS; after a timeout, a T_ERROR or any other
\* response at either step no T_FILEMSG is sent.
C20_UploadOrder ==
    /\ (\E i \in 1..Len(ufile) : ufile[i] = Blob)
          => (ufile = <<UploadPacket, Blob>> /\ Len(uresp) >= 1 /\ Ack(uresp[1]))
    /\ FileMsgSent
          => (ufile = <<UploadPacket, Blob>> /\ Len(uresp) = 2
                /\ Ack(uresp[1]) /\ Ack(uresp[2]))
    /\ (\E i \in 1..Len(uresp) : ~Ack(uresp[i])) => ~FileMsgSent
    /\ \A i, j \in 1..Len(umain) : umain[i].upload = umain[j].upload => i = j

\* C20 witness: a second upload sent its file message to carol after both
\* acknowledgements; the first upload had failed.
C20_Witness ==
    /\ upc = "idle" /\ ures = Returned_ok /\ uloads = 2
    /\ Len(umain) = 1 /\ umain[1].upload = 2 /\ umain[1].to = "carol"
    /\ Len(uresp) = 2 /\ Ack(uresp[1]) /\ Ack(uresp[2])

(***************************************************************************)
(* FileTransfer.download_file and crypto.aes_decrypt_to_file.  A buffer is *)
(* a sequence of bytes; a byte is named by the value it belongs to and its *)
(* position in it.  The file server's packets and the bytes it streams are *)
(* inputs.                                                                 *)
(***************************************************************************)
T_FILE_DOWNLOAD == 32

\* bytes of a ciphertext in this model (a real one is a multiple of 32)
CtLen == 2

\* the n bytes of the value t
Bytes(t, n) == [i \in 1..n |-> [of |-> t, i |-> i]]

\* Python's buf[a:b] (0-based, b exclusive, both clipped to the buffer)
Slice(buf, a, b) == SubSeq(buf, Min(a, Len(buf)) + 1, Min(b, Len(buf)))

\* zlib.compress / zlib.decompress
zlib_compress(data) == [fn |-> "zlib", d |-> data]

zlib_decompress(data) ==
    IF data.fn = "zlib" THEN Ok(data.d) ELSE Fail("zlib.error")

\* aes_decrypt(key, enc, iv) on buffers: the ciphertext that aes_encrypt
\* made with this key and iv decrypts to its plaintext; on anything else
\* the unpadder (or the cipher) raises.
aes_decrypt_bytes(key, enc, iv) ==
    IF /\ Len(enc) = CtLen /\ Len(iv) = 16
       /\ enc = Bytes(enc[1].of, CtLen)
       /\ iv = Bytes(enc[1].of.iv, 16)
    THEN aes_decrypt(key, enc[1].of, enc[1].of.iv)
    ELSE Fail("padding")

\* aes_encrypt_from_file without reading the file: IV + HMAC + ciphertext
\* of the compressed data
file_buffer(key, data, iv) ==
    LET enc == Bytes(aes_encrypt(key, zlib_compress(data), iv), CtLen)
    IN  Bytes(iv, 16) \o Bytes(hmac_sha256(key, enc), 32) \o enc

\* a slip: the HMAC is not compared
aes_decrypt_to_file_no_hmac(key, file_buf, out) ==
    LET iv   == Slice(file_buf, 0, 16)
        enc  == Slice(file_buf, 48, Len(file_buf))
        dec  == aes_decrypt_bytes(key, enc, iv)
    IN  IF ~dec.ok THEN [exc |-> dec.err, out |-> "empty"]
        ELSE IF ~zlib_decompress(dec.v).ok
             THEN [exc |-> "zlib.error", out |-> "empty"]
        ELSE [exc |-> "", out |-> "written"]

\* aes_decrypt_to_file(key, file_buf, filepath): the exception it raises
\* ("" if none) and the output file after it.  open(filepath, 'wb') comes
\* after the HMAC comparison and before aes_decrypt and zlib.decompress,
\* so a failure of these leaves the file created and empty.
aes_decrypt_to_file(key, file_buf, out) ==
    LET iv   == Slice(file_buf, 0, 16)
        hmac == Slice(file_buf, 16, 48)
        enc  == Slice(file_buf, 48, Len(file_buf))
        dec  == aes_decrypt_bytes(key, enc, iv)
    IN  IF hmac # Bytes(hmac_sha256(key, enc), 32)
        THEN [exc |-> "HMAC's mismatch", out |-> out]
        ELSE IF ~dec.ok THEN [exc |-> dec.err, out |-> "empty"]
        ELSE IF ~zlib_decompress(dec.v).ok
             THEN [exc |-> "zlib.error", out |-> "empty"]
        ELSE [exc |-> "", out |-> "written"]

\* struct.unpack('!I', b)[0] for the small values used here
unpack_I(b) == ((b[1] * 256 + b[2]) * 256 + b[3]) * 256 + b[4]

\* the key handed to download_file, and one it was not encrypted with
FileKey == "key"
OtherKey == "other key"

FileIv == [fn |-> "iv", n |-> 1]

\* the buffers the file server may hold for the file id: the uploaded one;
\* one whose HMAC belongs to another key; one whose plaintext is no zlib
\* stream; one whose ciphertext lost its last byte (HMAC over what is
\* left); one that ends inside the HMAC
GoodBlob == file_buffer(FileKey, "file", FileIv)

BadHmacBlob ==
    Slice(GoodBlob, 0, 16)
      \o Bytes(hmac_sha256(OtherKey, Slice(GoodBlob, 48, 48 + CtLen)), 32)
      \o Slice(GoodBlob, 48, 48 + CtLen)

BadZlibBlob ==
    LET enc == Bytes(aes_encrypt(FileKey, [fn |-> "raw", d |-> "file"], FileIv), CtLen)
    IN  Bytes(FileIv, 16) \o Bytes(hmac_sha256(FileKey, enc), 32) \o enc

BadPadBlob ==
    LET enc == Slice(GoodBlob, 48, 48 + CtLen - 1)
    IN  Bytes(FileIv, 16) \o Bytes(hmac_sha256(FileKey, enc), 32) \o enc

ServerBlobs == {GoodBlob, BadHmacBlob, BadZlibBlob, BadPadBlob, Slice(GoodBlob, 0, 20)}

\* the sizes the file server may announce
AnnouncedSizes == {0, 20, 48 + CtLen - 1, 48 + CtLen, 48 + CtLen + 1}

\* what conn.recv_packet gives to __recv_ok in download_file
DownloadPackets ==
    { Ret(PyFalse), Raise("recv_packet"),
      RetTuple(T_ERROR, PyBytes(<<9>>)), RetTuple(T_CHATMSG, PyNone),
      RetTuple(T_SUCCESS, PyNone), RetTuple(T_SUCCESS, PyBytes(<<0, 50>>)) }
      \cup { RetTuple(T_SUCCESS, PyBytes(BE32(n))) : n \in AnnouncedSizes }

\* the bytes one conn.recv gives when the bytes are there (max_bytes is 4096)
ChunkSizes == {20, 4096}

\* a slip: more bytes than announced pass
size_reached(nrecv, filesize) == nrecv >= filesize

\* `if nrecv != filesize: raise`
size_ok(nrecv, filesize) == nrecv = filesize

otherD == <<netvars, avars, stvars, fvars, lvars, uvars, bvars, nvars, kvars, idvars, qvars, gvars, wvars, bnvars>>

DownloadRaise(e) == dpc' = "done" /\ dres' = Raised(e)

InitDownload ==
    /\ dpc = "idle" /\ dblob \in ServerBlobs /\ dstream = <<>> /\ dsent = <<>>
    /\ dsize = 0 /\ ddata = <<>> /\ dnrecv = 0 /\ dconn = "None"
    /\ dout \in {"absent", "written"} /\ dres = NoResult
    /\ NetPark /\ APark /\ StPark /\ FPark /\ LPark /\ UPark /\ BPark /\ NPark /\ KPark /\ IdPark /\ QPark /\ GPark /\ WPark /\ BnPark

\* download_file(friend, fileid, filename, key): conn = self.__connect();
\* conn.send_packet(Proto.T_FILE_DOWNLOAD, fileid)
DownloadFile ==
    /\ dpc = "idle"
    /\ \/ /\ dconn' = "open" /\ dsent' = Append(dsent, T_FILE_DOWNLOAD)
          /\ dpc' = "asked" /\ UNCHANGED dres
       \/ DownloadRaise("connect") /\ UNCHANGED <<dconn, dsent>>
       \/ dconn' = "open" /\ DownloadRaise("send_packet") /\ UNCHANGED dsent
    /\ UNCHANGED <<dblob, dstream, dsize, ddata, dnrecv, dout, otherD>>

\* pckt = self.__recv_ok(conn); filesize = struct.unpack('!I', pckt[1])[0];
\* data = b''; nrecv = 0.  The server starts to stream its buffer.
DownloadSize ==
    /\ dpc = "asked"
    /\ \E pckt \in DownloadPackets :
         IF recv_ok(pckt) # ""
         THEN DownloadRaise(recv_ok(pckt)) /\ UNCHANGED <<dsize, dstream>>
         ELSE IF pckt.val.py # "bytes"
         THEN DownloadRaise("TypeError") /\ UNCHANGED <<dsize, dstream>>
         ELSE IF Len(pckt.val.v) # 4
         THEN DownloadRaise("struct.error") /\ UNCHANGED <<dsize, dstream>>
         ELSE /\ dsize' = unpack_I(pckt.val.v) /\ dstream' = dblob
              /\ dpc' = "loop" /\ UNCHANGED dres
    /\ ddata' = <<>> /\ dnrecv' = 0
    /\ UNCHANGED <<dblob, dsent, dconn, dout, otherD>>

\* the end of the loop: conn.close(); the size check; aes_decrypt_to_file;
\* return filename, filesize
DownloadStore(data, nrecv) ==
    /\ dconn' = "closed"
    /\ IF ~size_ok(nrecv, dsize)
       THEN DownloadRaise("FileTransfer: Failed to download") /\ UNCHANGED dout
       ELSE LET r == aes_decrypt_to_file(FileKey, data, dout)
            IN  /\ dout' = r.out
                /\ IF r.exc # "" THEN DownloadRaise("Failed to decrypt file")
                   ELSE dpc' = "done" /\ dres' = Returned_ok

\* one round of `while nrecv < filesize`: buf = conn.recv(timeout_sec);
\* `if not buf: break`; data += buf; nrecv += len(buf).  When the loop
\* ends, the rest of download_file runs.
DownloadRecv ==
    /\ dpc = "loop"
    /\ IF ~(dnrecv < dsize)
       THEN DownloadStore(ddata, dnrecv) /\ UNCHANGED <<dstream, ddata, dnrecv>>
       ELSE \/ \E n \in ChunkSizes :
                 /\ dstream # <<>>
                 /\ ddata' = ddata \o Slice(dstream, 0, n)
                 /\ dnrecv' = dnrecv + Len(Slice(dstream, 0, n))
                 /\ dstream' = Slice(dstream, n, Len(dstream))
                 /\ UNCHANGED <<dpc, dres, dconn, dout>>
            \* False after the timeout, b'' when the peer closed
            \/ DownloadStore(ddata, dnrecv) /\ UNCHANGED <<dstream, ddata, dnrecv>>
            \/ DownloadRaise("recv") /\ UNCHANGED <<dstream, ddata, dnrecv, dconn, dout>>
    /\ UNCHANGED <<dblob, dsent, dsize, otherD>>

NextDownload == DownloadFile \/ DownloadSize \/ DownloadRecv

SpecDownload == InitDownload /\ [][NextDownload]_vars

\* C21: download_file returns only if exactly the announced number of bytes
\* was received, the HMAC of the received buffer verifies under the key, and
\* it decrypts and decompresses; it asks the file server once per call.
C21_DownloadSuccess ==
    /\ dres = Returned_ok =>
          /\ dnrecv = dsize /\ Len(ddata) = dsize
          /\ Slice(ddata, 16, 48) = Bytes(hmac_sha256(FileKey, Slice(ddata, 48, Len(ddata))), 32)
          /\ aes_decrypt_bytes(FileKey, Slice(ddata, 48, Len(ddata)), Slice(ddata, 0, 16)).ok
          /\ ddata = GoodBlob
    /\ Len(dsent) <= 1

\* C21 witness: the uploaded buffer arrived whole, was stored, and the call
\* returned.
C21_Witness ==
    /\ dpc = "done" /\ dres = Returned_ok /\ dsize = 48 + CtLen
    /\ ddata = GoodBlob /\ dout = "written" /\ dconn = "closed"

(***************************************************************************)
(* RetroBot.run: the connect loop and the receive loop.  What recv_packet  *)
(* gives is an input.  RetroBot calls recv_packet on its RetroClient,      *)
(* which hands the call to the connection (NetClient.recv_packet).         *)
(***************************************************************************)
MaxPolls == 4

MaxSessions == 2

\* logins the bot sends
MaxLogins == 3

BotName == "bob"

\* the envelope of a chat message of alice to the bot
BotEnvelope == make_msg("alice", BotName, Hello, "message", Rand(1), Rand(2), Now)[2]

\* pckt[1] of a T_CHATMSG packet: nothing, the envelope, or the envelope
\* altered on its way (or made by someone who is no friend of the bot)
BotPayloads ==
    {PyNone, PyBytes(BotEnvelope)}
      \cup { PyBytes(Tampered(BotEnvelope, kind)) :
                kind \in {"body_bits", "body_invalid", "header_bits", "sig_bits", "from"} }

\* self.cli.msgHandler.decrypt_msg(pckt[0], pckt[1]).  MsgHandler.decrypt_msg
\* takes one argument (msg), so with it the call raises TypeError whatever
\* the payload; a handler that takes the two arguments of the call does
\* to the payload what decrypt_msg does.
Handlers == {"one argument", "two arguments"}

bot_decrypt(handler, env) ==
    IF handler = "one argument" THEN Fail("TypeError")
    ELSE decrypt_msg(BotName, env).res

\* a slip: no try/except around decrypt_msg and handle_message
forward_chatmsg_no_except(handler, payload) ==
    IF Falsy(payload) THEN [handled |-> FALSE, escapes |-> FALSE]
    ELSE IF bot_decrypt(handler, payload.v).ok
         THEN [handled |-> TRUE, escapes |-> FALSE]
         ELSE [handled |-> FALSE, escapes |-> TRUE]

\* __forward_chatmsg(pckt): is handle_message called, and does an exception
\* leave the method.  Every exception of decrypt_msg and of handle_message
\* is caught and logged.
forward_chatmsg(handler, payload) ==
    IF Falsy(payload) THEN [handled |-> FALSE, escapes |-> FALSE]
    ELSE [handled |-> bot_decrypt(handler, payload.v).ok, escapes |-> FALSE]

\* the payload decrypts and verifies for the bot
ValidPayload(payload) == ~Falsy(payload) /\ decrypt_msg(BotName, payload.v).res.ok

otherB == <<netvars, avars, stvars, fvars, lvars, uvars, dvars, nvars, kvars, idvars, qvars, gvars, wvars>>

Poll(kind, valid, handled) ==
    [kind |-> kind, valid |-> valid, handled |-> handled, session |-> bsession]

InitBot ==
    /\ bpc = "connect" /\ bdone = FALSE /\ bconnected = FALSE /\ bsession = 0
    /\ bpolls = 0 /\ blast = NoPoll /\ bhandled = <<>>
    /\ bsock = 0 /\ bmade = 0 /\ bended = {} /\ bdead = {} /\ bhello = NoLogin
    /\ NetPark /\ APark /\ StPark /\ FPark /\ LPark /\ UPark /\ DPark /\ NPark /\ KPark /\ IdPark /\ QPark /\ GPark /\ WPark

\* NetClient.connect() when no exception is raised: `if self.conn: return`
\* keeps the socket there is (0 is None), else a socket is created
net_connect(conn, made) == IF conn # 0 THEN conn ELSE made + 1

\* one round of __connect_loop: self.cli.connect() (NetClient.connect, then
\* the login is sent and the answer awaited), or the error is logged and
\* the bot sleeps.  Nothing closes the connection when connect() raises.
\* No welcome comes on a socket the peer has closed.
BotConnect ==
    /\ bpc = "connect" /\ bsession < MaxSessions
    /\ \/ \* socket.create_connection or wrap_socket raises
          /\ bsock = 0
          /\ bconnected' = FALSE
          /\ UNCHANGED <<bsession, bpc, bsock, bmade, bhello>>
       \/ \* send_dict raises on the socket
          /\ bsock' = net_connect(bsock, bmade)
          /\ bmade' = IF bsock' > bmade THEN bsock' ELSE bmade
          /\ bconnected' = FALSE
          /\ UNCHANGED <<bsession, bpc, bhello>>
       \/ \* the login is sent
          /\ bhello.n < MaxLogins
          /\ bsock' = net_connect(bsock, bmade)
          /\ bmade' = IF bsock' > bmade THEN bsock' ELSE bmade
          /\ bhello' = [sock |-> bsock', n |-> bhello.n + 1]
          /\ \/ /\ bsock' \notin bdead
                /\ bconnected' = TRUE /\ bsession' = bsession + 1 /\ bpc' = "recv"
             \/ bconnected' = FALSE /\ UNCHANGED <<bsession, bpc>>
    /\ UNCHANGED <<bdone, bpolls, blast, bhandled, bended, bdead, otherB>>

\* `break`, then self.connected = False, then `while not self.done` of run
BotBreak(done) ==
    /\ bconnected' = FALSE /\ bdone' = done
    /\ bpc' = IF done THEN "quit" ELSE "connect"

BotContinue == UNCHANGED <<bpc, bdone, bconnected>>

\* one round of __recv_loop
BotRecv ==
    /\ bpc = "recv" /\ bpolls < MaxPolls
    /\ bpolls' = bpolls + 1
    /\ \/ \* KeyboardInterrupt
          BotBreak(TRUE) /\ blast' = Poll("interrupt", FALSE, FALSE)
            /\ UNCHANGED <<bhandled, bended, bdead>>
       \/ \* recv_packet raises
          BotBreak(FALSE) /\ blast' = Poll("raise", FALSE, FALSE)
            /\ bended' = bended \cup {bsock}
            /\ (\E lost \in BOOLEAN :
                   bdead' = (IF lost THEN bdead \cup {bsock} ELSE bdead))
            /\ UNCHANGED bhandled
       \/ \* False: timeout
          BotContinue /\ blast' = Poll("timeout", FALSE, FALSE)
            /\ UNCHANGED <<bhandled, bended, bdead>>
       \/ \* None or b'': the peer closed
          BotBreak(FALSE) /\ blast' = Poll("closed", FALSE, FALSE)
            /\ bended' = bended \cup {bsock} /\ bdead' = bdead \cup {bsock}
            /\ UNCHANGED bhandled
       \/ \* a packet of another type
          BotContinue /\ blast' = Poll("other", FALSE, FALSE)
            /\ UNCHANGED <<bhandled, bended, bdead>>
       \/ \E payload \in BotPayloads, handler \in Handlers :
            LET r == forward_chatmsg(handler, payload)
            IN  /\ blast' = Poll("chat", ValidPayload(payload), r.handled)
                /\ bhandled' = IF r.handled
                               THEN Append(bhandled,
                                      decrypt_msg(BotName, payload.v).res.v.msg)
                               ELSE bhandled
                /\ IF r.escapes
                   THEN bpc' = "crashed" /\ UNCHANGED <<bdone, bconnected>>
                   ELSE BotContinue
                /\ UNCHANGED <<bended, bdead>>
    /\ UNCHANGED <<bsession, bsock, bmade, bhello, otherB>>

\* the end of run: self.cli.send_packet(Proto.T_GOODBYE); self.cli.close()
BotQuit ==
    /\ bpc = "quit"
    /\ bpc' = "stopped"
    /\ bsock' = 0
    /\ UNCHANGED <<bdone, bconnected, bsession, bpolls, blast, bhandled,
                   bmade, bended, bdead, bhello, otherB>>

NextBot == BotConnect \/ BotRecv \/ BotQuit

SpecBot == InitBot /\ [][NextBot]_vars

\* C22: after a round of the receive loop that got a chat packet which does
\* not decrypt and verify, handle_message was not called for it and the
\* loop goes on receiving on the same session; after a round that timed
\* out the loop goes on on the same session as well.
C22_BadChatDiscarded ==
    /\ (blast.kind = "chat" /\ ~blast.valid) =>
          /\ ~blast.handled
          /\ bpc = "recv" /\ bconnected /\ ~bdone /\ bsession = blast.session
    /\ blast.kind = "timeout" =>
          (bpc = "recv" /\ bconnected /\ ~bdone /\ bsession = blast.session)
    /\ Len(bhandled) <= bpolls

\* C22 witness: the bot handled a message, then got one that does not
\* verify, and is still receiving on its first session.
C22_Witness ==
    /\ blast.kind = "chat" /\ ~blast.valid /\ ~blast.handled
    /\ bhandled = <<Hello>> /\ bpolls = 3 /\ bpc = "recv" /\ bsession = 1

(***************************************************************************)
(* protocol.py: the packet types of class Proto.                           *)
(***************************************************************************)
T_HELLO == 3
T_GOODBYE == 4
T_GET_PUBKEY == 6
T_FRIENDS == 20
T_FRIEND_ONLINE == 21
T_FRIEND_OFFLINE == 22
T_FRIEND_UNKNOWN == 23
T_START_CALL == 40
T_STOP_CALL == 41
T_REJECT_CALL == 42
T_ACCEPT_CALL == 43

\* the type attributes of Proto, by name
Proto ==
    [ T_SUCCESS |-> T_SUCCESS, T_ERROR |-> T_ERROR, T_HELLO |-> T_HELLO,
      T_GOODBYE |-> T_GOODBYE, T_REGISTER |-> T_REGISTER, T_PUBKEY |-> T_PUBKEY,
      T_GET_PUBKEY |-> T_GET_PUBKEY, T_CHATMSG |-> T_CHATMSG,
      T_FILEMSG |-> T_FILEMSG, T_FRIENDS |-> T_FRIENDS,
      T_FRIEND_ONLINE |-> T_FRIEND_ONLINE, T_FRIEND_OFFLINE |-> T_FRIEND_OFFLINE,
      T_FRIEND_UNKNOWN |-> T_FRIEND_UNKNOWN, T_FILE_UPLOAD |-> T_FILE_UPLOAD,
      T_FILE_DOWNLOAD |-> T_FILE_DOWNLOAD, T_START_CALL |-> T_START_CALL,
      T_STOP_CALL |-> T_STOP_CALL, T_REJECT_CALL |-> T_REJECT_CALL,
      T_ACCEPT_CALL |-> T_ACCEPT_CALL ]

\* the packet kinds a type value on the wire may stand for
PacketKinds(t) == { name \in DOMAIN Proto : Proto[name] = t }

\* C23: the packet types are pairwise distinct, T_GOODBYE = 4,
\* T_REGISTER = 5, T_PUBKEY = 6 and T_GET_PUBKEY = 7, and every packet that
\* create_account has sent stands for exactly one packet kind.
C23_DistinctTypes ==
    /\ \A a, b \in DOMAIN Proto : Proto[a] = Proto[b] => a = b
    /\ T_GOODBYE = 4 /\ T_REGISTER = 5 /\ T_PUBKEY = 6 /\ T_GET_PUBKEY = 7
    /\ \A i \in 1..Len(asent) : Cardinality(PacketKinds(asent[i])) = 1

\* C24: when recv_packet has raised for a protocol version mismatch, the
\* connection is closed: NetClient.conn is None, as after close().
C24_ClosedOnMismatch ==
    (rpc = "idle" /\ rret = Raise("ValueError")) => nconn = "None"

\* C25: when recv_packet has read a header whose size field is negative, it
\* raises; it does not return a (type, payload) pair.
C25_NegativeSizeRejected ==
    (rpc = "idle" /\ rhdr # <<>> /\ rhdr[3] < 0) => rret.kind = "raise"

(***************************************************************************)
(* protocol.py: Proto.unpack_packet, applied to sampled buffers and size   *)
(* lists.                                                                  *)
(***************************************************************************)
MaxBuf == 6

MaxFixed == 2

\* an entry of data_sizes: a length, or None
Fixed(n) == [none |-> FALSE, n |-> n]
NoneSize == [none |-> TRUE, n |-> 0]

\* `if size:`
SizeTruthy(size) == ~size.none /\ size.n # 0

RECURSIVE unpack_from(_, _, _, _)
\* the loop of unpack_packet from entry k on, with i and pckt_items
unpack_from(pckt_buf, data_sizes, i, pckt_items) ==
    IF data_sizes = <<>> THEN Ok(pckt_items)
    ELSE IF i >= Len(pckt_buf) THEN Fail("Packet buffer too small to unpack")
    ELSE LET size == Head(data_sizes)
         IN  IF SizeTruthy(size)
             THEN unpack_from(pckt_buf, Tail(data_sizes), i + size.n,
                     Append(pckt_items, Slice(pckt_buf, i, i + size.n)))
             ELSE unpack_from(pckt_buf, Tail(data_sizes),
                     i + Len(Slice(pckt_buf, i, Len(pckt_buf))),
                     Append(pckt_items, Slice(pckt_buf, i, Len(pckt_buf))))

unpack_packet(pckt_buf, data_sizes) == unpack_from(pckt_buf, data_sizes, 0, <<>>)

\* the buffers 1, 2, .., n
Buffers == { [i \in 1..n |-> i] : n \in 0..MaxBuf }

\* lists of up to MaxFixed fixed sizes, with or without a None at the end
FixedLists ==
    UNION { [1..m -> {Fixed(1), Fixed(2), Fixed(3)}] : m \in 0..MaxFixed }

SizeLists == FixedLists \cup { Append(l, NoneSize) : l \in FixedLists }

otherK == <<netvars, avars, stvars, fvars, lvars, uvars, dvars, bvars, nvars, idvars, qvars, gvars, wvars, bnvars>>

InitUnpack ==
    /\ kpc = "start" /\ kbuf \in Buffers /\ ksizes \in SizeLists
    /\ kres = NoUnpack
    /\ NetPark /\ APark /\ StPark /\ FPark /\ LPark /\ UPark /\ DPark /\ BPark /\ NPark /\ IdPark /\ QPark /\ GPark /\ WPark /\ BnPark

UnpackPacket ==
    /\ kpc = "start"
    /\ kres' = unpack_packet(kbuf, ksizes)
    /\ kpc' = "done"
    /\ UNCHANGED <<kbuf, ksizes, otherK>>

NextUnpack == UnpackPacket

SpecUnpack == InitUnpack /\ [][NextUnpack]_vars

RECURSIVE SumFixed(_)
SumFixed(sizes) ==
    IF sizes = <<>> THEN 0
    ELSE (IF Head(sizes).none THEN 0 ELSE Head(sizes).n) + SumFixed(Tail(sizes))

\* C26: unpack_packet fails exactly when the buffer is shorter than the sum
\* of the fixed sizes; otherwise it returns one slice per entry, the slices
\* lie one after the other in the buffer, every fixed slice has its
\* requested length and a trailing None slice holds the rest (maybe empty).
C26_UnpackPacket ==
    kpc = "done" =>
      /\ ~kres.ok <=> Len(kbuf) < SumFixed(ksizes)
      /\ kres.ok =>
           /\ Len(kres.v) = Len(ksizes)
           /\ \A j \in 1..Len(ksizes) :
                LET at == SumFixed(SubSeq(ksizes, 1, j - 1))
                IN  IF ksizes[j].none
                    THEN kres.v[j] = Slice(kbuf, at, Len(kbuf))
                    ELSE kres.v[j] = Slice(kbuf, at, at + ksizes[j].n)
                           /\ Len(kres.v[j]) = ksizes[j].n

\* a T_SUCCESS packet
Success(pckt) == pckt.kind = "tuple" /\ pckt.type = T_SUCCESS

\* C27: in create_account something of the local account exists only after
\* T_REGISTER was answered by T_SUCCESS with a user id and T_PUBKEY, sent
\* after it, was answered by T_SUCCESS; the user id in account.db is the
\* one of the first T_SUCCESS.
C27_LocalAfterServer ==
    /\ afs # {} =>
          /\ asent = <<T_REGISTER, T_PUBKEY>>
          /\ Len(arecv) = 2 /\ Success(arecv[1]) /\ Success(arecv[2])
          /\ arecv[1].val.py = "bytes"
    /\ adbid # PyNone => ("account.db" \in afs /\ adbid = arecv[1].val)
    /\ (apc = "done" /\ ares = "True") => (adbid # PyNone /\ "account.db" \in afs)

\* C27 witness: an account was created with the other user id.
C27_Witness ==
    /\ apc = "done" /\ ares = "True" /\ adbid = PyBytes(OtherUserId)
    /\ {"accpath", ".salt", "account.db"} \subseteq afs

\* C28: when a call of the store for a friend has returned and the
\* conversation is still open, its last_action is the time of the call.
C28_TouchesLastAction ==
    (stpc = "returned" /\ stres.raised = "" /\ stconv[stres.friend].cached)
        => stconv[stres.friend].last_action = stnow

(***************************************************************************)
(* MsgStore.py: MsgDB with its two tables.  msg is a sequence of rows      *)
(* [id, type], files a sequence of rows [msgid, fileid]; every statement   *)
(* that changed a table is committed by the method before it goes on.      *)
(* self.db.execute may raise.                                              *)
(***************************************************************************)
MaxCalls == 4

MaxTableRows == 3

\* the _id sqlite gives to a row inserted without one (INTEGER PRIMARY
\* KEY): the largest _id of the table plus one
NextRowid(msgT) == MaxId(msgT) + 1

\* a slip: the number of rows is taken for the last id
get_last_msgid_count(msgT) == Len(msgT)

\* MsgDB.get_last_msgid: SELECT max(_id) FROM msg
get_last_msgid(msgT) == MaxId(msgT)

\* a slip: the rows of the files table are left behind
delete_files_never(filesT, msgid) == filesT

\* DELETE FROM files WHERE _msgid=?
delete_files(filesT, msgid) == SelectSeq(filesT, LAMBDA r : r.msgid # msgid)

\* the statements of MsgDB.add_msg(msg) that may raise
AddFailures == {"none", "insert msg", "insert files"}

\* MsgDB.add_msg(msg) on the tables, where `fails` raises: the tables
\* after it, the id of the inserted msg row (0 if none), the value
\* returned, the exception.  The msg row is committed before the tuple
\* for the files row is built; msg['downloaded'] raises KeyError for a
\* dictionary without this field.
tables_add_msg(msgT, filesT, msg, fails) ==
    IF fails = "insert msg"
    THEN [msg |-> msgT, files |-> filesT, inserted |-> 0, val |-> 0, exc |-> "execute", list |-> <<>>]
    ELSE LET id    == NextRowid(msgT)
             msg2  == Append(msgT, [id |-> id, type |-> msg.type])
             msgid == get_last_msgid(msg2)
         IN  IF msg.type # T_FILEMSG
             THEN [msg |-> msg2, files |-> filesT, inserted |-> id, val |-> msgid, exc |-> "", list |-> <<>>]
             ELSE IF ~msg.downloaded
             THEN [msg |-> msg2, files |-> filesT, inserted |-> id, val |-> 0, exc |-> "KeyError", list |-> <<>>]
             ELSE IF fails = "insert files"
             THEN [msg |-> msg2, files |-> filesT, inserted |-> id, val |-> 0, exc |-> "execute", list |-> <<>>]
             ELSE [msg |-> msg2,
                   files |-> Append(filesT, [msgid |-> msgid, fileid |-> msg.fileid]),
                   inserted |-> id, val |-> msgid, exc |-> "", list |-> <<>>]

\* the statements of MsgDB.delete_msg(msgid) that may raise
DeleteFailures == {"none", "select", "delete files", "delete msg"}

\* MsgDB.delete_msg(msgid) on the tables, where `fails` raises.  For an id
\* that is not in the table fetchone() gives None and __row_to_msg raises
\* TypeError.
tables_delete_msg(msgT, filesT, msgid, fails) ==
    LET found == SelectSeq(msgT, LAMBDA r : r.id = msgid)
        same  == [msg |-> msgT, files |-> filesT, inserted |-> 0, val |-> 0, exc |-> "execute", list |-> <<>>]
    IN  IF fails = "select" THEN same
        ELSE IF found = <<>> THEN [same EXCEPT !.exc = "TypeError"]
        ELSE IF found[1].type = T_FILEMSG /\ fails = "delete files" THEN same
        ELSE LET files2 == IF found[1].type = T_FILEMSG
                           THEN delete_files(filesT, msgid) ELSE filesT
             IN  IF fails = "delete msg" THEN [same EXCEPT !.files = files2]
                 ELSE [msg |-> db_delete_msg(msgT, msgid), files |-> files2,
                       inserted |-> 0, val |-> 0, exc |-> "", list |-> <<>>]

\* MsgDB.__row_to_msg(row): the dictionary of a msg row
row_to_msg(row) == [py |-> "dict", id |-> row.id, type |-> row.type, fileid |-> 0]

\* MsgDB.__get_filemsg(msg_row): the dictionary with the fields of the
\* first files row of the message, None if there is no such row
get_filemsg(filesT, msg_row) ==
    LET found == SelectSeq(filesT, LAMBDA f : f.msgid = msg_row.id)
    IN  IF found = <<>> THEN PyNone
        ELSE [row_to_msg(msg_row) EXCEPT !.fileid = found[1].fileid]

\* msgs.append(msg)
append_msg(msgs, msg) == Append(msgs, msg)

RECURSIVE rows_to_msgs(_, _)
\* the loop of MsgDB.get_msgs over the selected rows
rows_to_msgs(result, filesT) ==
    IF result = <<>> THEN <<>>
    ELSE LET row  == result[Len(result)]
             msgs == rows_to_msgs(SubSeq(result, 1, Len(result) - 1), filesT)
         IN  IF row.type = T_CHATMSG THEN append_msg(msgs, row_to_msg(row))
             ELSE IF row.type = T_FILEMSG THEN append_msg(msgs, get_filemsg(filesT, row))
             ELSE msgs

\* the statements of MsgDB.get_msgs that may raise
GetFailures == {"none", "select"}

\* MsgDB.get_msgs(last_n, pckt_type) on the tables, where `fails` raises.
\* The rows of msg are kept in the order of their _time.
tables_get_msgs(msgT, filesT, last_n, pckt_type, fails) ==
    LET msgs == rows_to_msgs(SelectWhere(msgT, pckt_type), filesT)
        same == [msg |-> msgT, files |-> filesT, inserted |-> 0, val |-> 0]
    IN  IF fails = "select"
        THEN same @@ [exc |-> "execute", list |-> <<>>]
        ELSE same @@ [exc |-> "",
                      list |-> IF last_n # NoLastN THEN TailSlice(msgs, last_n) ELSE msgs]

otherQ == <<netvars, avars, stvars, fvars, lvars, uvars, dvars, bvars, nvars, kvars, idvars, gvars, wvars, bnvars>>

InitTables ==
    /\ qpc = "open" /\ qmsg = <<>> /\ qfiles = <<>> /\ qcalls = 0 /\ qres = NoDbCall
    /\ NetPark /\ APark /\ StPark /\ FPark /\ LPark /\ UPark /\ DPark /\ BPark /\ NPark /\ KPark /\ IdPark /\ GPark /\ WPark /\ BnPark

TableCall(op, type, arg, r) ==
    /\ qpc = "open" /\ qcalls < MaxCalls
    /\ qcalls' = qcalls + 1
    /\ qmsg' = r.msg /\ qfiles' = r.files
    /\ qres' = [op |-> op, type |-> type, arg |-> arg, inserted |-> r.inserted,
                val |-> r.val, raised |-> r.exc, call |-> qcalls + 1,
                msgs |-> r.list]
    /\ UNCHANGED <<qpc, otherQ>>

\* the dictionaries given to add_msg: a chat message, a file message with
\* every field, a file message as make_file_msg builds it (the fields of
\* make_msg and of file_dict: no 'downloaded')
AddMsgDicts ==
    { [type |-> T_CHATMSG, downloaded |-> FALSE],
      [type |-> T_FILEMSG, downloaded |-> TRUE],
      [type |-> T_FILEMSG, downloaded |-> FALSE] }

\* add_msg(msg): a chat message or a file message; the file id is new
TablesAddMsg ==
    /\ Len(qmsg) < MaxTableRows
    /\ \E msg \in AddMsgDicts, fails \in AddFailures :
         TableCall("add_msg", msg.type, 0,
                   tables_add_msg(qmsg, qfiles,
                                  [type |-> msg.type, fileid |-> qcalls + 1,
                                   downloaded |-> msg.downloaded], fails))

\* the _type of the msg row with the id (0 if there is none)
TypeOf(msgT, msgid) ==
    LET found == SelectSeq(msgT, LAMBDA r : r.id = msgid)
    IN  IF found = <<>> THEN 0 ELSE found[1].type

\* delete_msg(msgid)
TablesDeleteMsg ==
    \E msgid \in 1..MaxTableRows, fails \in DeleteFailures :
        TableCall("delete_msg", TypeOf(qmsg, msgid), msgid,
                  tables_delete_msg(qmsg, qfiles, msgid, fails))

\* get_msgs(last_n, pckt_type)
TablesGetMsgs ==
    \E last_n \in {NoLastN, 1}, pckt_type \in TypeFilters, fails \in GetFailures :
        TableCall("get_msgs", pckt_type, last_n,
                  tables_get_msgs(qmsg, qfiles, last_n, pckt_type, fails))

NextTables == TablesAddMsg \/ TablesDeleteMsg \/ TablesGetMsgs

SpecTables == InitTables /\ [][NextTables]_vars

\* C29: when add_msg of a file message has returned, the files table holds
\* the row of this call, its _msgid is the _id of the msg row the call
\* inserted, that row is a file message, and the call returned this id.
C29_FileRowOfInsertedMsg ==
    (qres.op = "add_msg" /\ qres.raised = "" /\ qres.type = T_FILEMSG) =>
        /\ qres.val = qres.inserted
        /\ \E i \in 1..Len(qfiles) :
              qfiles[i].fileid = qres.call /\ qfiles[i].msgid = qres.inserted
        /\ \E i \in 1..Len(qmsg) :
              qmsg[i].id = qres.inserted /\ qmsg[i].type = T_FILEMSG

\* C29 witness: a file message was added after a message with a smaller id
\* had been deleted.
C29_Witness ==
    /\ qres.op = "add_msg" /\ qres.raised = "" /\ qres.type = T_FILEMSG
    /\ qres.val = 3 /\ Len(qmsg) = 2 /\ qmsg[1].id = 2

\* C30: when delete_msg(id) of an existing message has returned, no msg row
\* has this id and no files row this _msgid; at all times every files row
\* refers to a msg row that is a file message.
C30_DeleteCascades ==
    /\ (qres.op = "delete_msg" /\ qres.raised = "") =>
          /\ \A i \in 1..Len(qmsg) : qmsg[i].id # qres.arg
          /\ \A i \in 1..Len(qfiles) : qfiles[i].msgid # qres.arg
    /\ \A i \in 1..Len(qfiles) :
          \E j \in 1..Len(qmsg) :
              qmsg[j].id = qfiles[i].msgid /\ qmsg[j].type = T_FILEMSG

\* C30 witness: of two file messages the first was deleted; the row of the
\* second is the one left in the files table.
C30_Witness ==
    /\ qres.op = "delete_msg" /\ qres.raised = "" /\ qres.type = T_FILEMSG
    /\ qres.arg = 1 /\ Len(qmsg) = 1 /\ qmsg[1].id = 2
    /\ Len(qfiles) = 1 /\ qfiles[1].msgid = 2

\* C31: the list get_msgs returns holds no None: a file message without a
\* files row is left out.
C31_GetMsgsSkipsIncomplete ==
    (qres.op = "get_msgs" /\ qres.raised = "") =>
        \A i \in 1..Len(qres.msgs) : qres.msgs[i].py = "dict"

\* C32: when download_file has returned or raised, the connection to the
\* file port it opened is closed (or was never opened).
C32_FileConnClosed ==
    dpc = "done" => dconn \in {"None", "closed"}

(***************************************************************************)
(* FriendDb.get_random_dbname: names are drawn until one is drawn that     *)
(* does not exist in the message directory.                                *)
(***************************************************************************)
\* the loop of the code has no end; the model follows it this far
MaxDraws == 17

\* what random_buffer(16, True) may give (8 random bytes as hex text)
DbNames == {"0a", "1b", "2c"}

\* `if not path_exists(filepath)`
name_free(msgdir, filename) == filename \notin msgdir

otherG == <<netvars, avars, stvars, fvars, lvars, uvars, dvars, bvars, nvars, kvars, idvars, qvars, wvars, bnvars>>

InitDbname ==
    /\ gpc = "idle" /\ gdir \in SUBSET DbNames /\ gdraws = 0 /\ gname = ""
    /\ NetPark /\ APark /\ StPark /\ FPark /\ LPark /\ UPark /\ DPark /\ BPark /\ NPark /\ KPark /\ IdPark /\ QPark /\ WPark /\ BnPark

\* get_random_dbname(friends_dir) is called
GetRandomDbname ==
    /\ gpc = "idle"
    /\ gpc' = "loop"
    /\ UNCHANGED <<gdir, gdraws, gname, otherG>>

\* one round of `while True`: filename = random_buffer(16, True);
\* `if not path_exists(filepath): return filename`
DbnameDraw ==
    /\ gpc = "loop" /\ gdraws < MaxDraws
    /\ \E filename \in DbNames :
         /\ gname' = filename
         /\ gpc' = IF name_free(gdir, filename) THEN "returned" ELSE "loop"
    /\ gdraws' = gdraws + 1
    /\ UNCHANGED <<gdir, otherG>>

NextDbname == GetRandomDbname \/ DbnameDraw

SpecDbname == InitDbname /\ [][NextDbname]_vars

\* C33: get_random_dbname returns a name that does not exist in the message
\* directory, and it draws at most 16 names: after 16 draws of existing
\* names it has ended.
C33_BoundedDraws ==
    /\ gpc = "returned" => gname \notin gdir
    /\ gdraws <= 16
    /\ (gdraws = 16 /\ gname \in gdir) => gpc # "loop"

\* C34: when recv_packet returns the timeout sentinel (False), the call has
\* taken no byte from the stream, so the next call starts reading where this
\* one started.
C34_TimeoutConsumesNothing ==
    (Returned /\ rcause = "timeout" /\ rret = Ret(PyFalse)) => rgot = 0

\* C35: in every state every conversation in MsgStore.conversations holds
\* an open database.
C35_CachedIsOpen ==
    \A f \in Friends : stconv[f].cached => stconv[f].dbopen

(***************************************************************************)
(* MsgStore.conversations, a dictionary from friend.name to the open       *)
(* MsgDB, for the friends of an account.  The table friends has _id        *)
(* UNIQUE and _name only NOT NULL, and Account.friends is a dictionary by  *)
(* id: two friends may have one name.                                      *)
(***************************************************************************)
MaxStoreCalls == 3

\* the friends of the account: two with the name bob
AccountFriends ==
    { [id |-> 1, name |-> "bob",   msgdbname |-> "db1"],
      [id |-> 2, name |-> "bob",   msgdbname |-> "db2"],
      [id |-> 3, name |-> "carol", msgdbname |-> "db3"] }

FriendNamesOf(friends) == { f.name : f \in friends }

DbNamesOf(friends) == { f.msgdbname : f \in friends }

\* the key of self.conversations: friend.name
cache_key(friend) == friend.name

CacheKeys == FriendNamesOf(AccountFriends)

\* MsgStore._open_conversation(friend) on the dictionary: the database
\* file friend.msgdbname is opened if the key is not in it
open_conversation_of(cache, friend) ==
    IF cache[cache_key(friend)] = "none"
    THEN [cache EXCEPT ![cache_key(friend)] = friend.msgdbname]
    ELSE cache

\* MsgStore._close_unused_conversations(): the keys in idle are those
\* whose last_action is more than 20 minutes ago
close_unused_of(cache, idle) ==
    [k \in DOMAIN cache |-> IF k \in idle THEN "none" ELSE cache[k]]

otherW == <<netvars, avars, stvars, fvars, lvars, uvars, dvars, bvars, nvars, kvars, idvars, qvars, gvars, bnvars>>

InitCache ==
    /\ wcache = [k \in CacheKeys |-> "none"]
    /\ wfiles = [d \in DbNamesOf(AccountFriends) |-> <<>>]
    /\ wcalls = 0
    /\ wres = [op |-> "none", friend |-> 0, db |-> "", val |-> <<>>]
    /\ NetPark /\ APark /\ StPark /\ FPark /\ LPark /\ UPark /\ DPark /\ BPark /\ NPark /\ KPark /\ IdPark /\ QPark /\ GPark /\ BnPark

\* a call of the store for the friend: _open_conversation, the method of
\* self.conversations[friend.name], _close_unused_conversations.  The
\* conversation of the call was used just now (add_msg and get_msgs set
\* last_action); any other may have been idle for 20 minutes.
CacheCall(op, friend, idle) ==
    LET c1 == open_conversation_of(wcache, friend)
        db == c1[cache_key(friend)]
    IN  /\ wcalls' = wcalls + 1
        /\ wfiles' = IF op = "add_msg"
                     THEN [wfiles EXCEPT ![db] = Append(@, wcalls + 1)]
                     ELSE wfiles
        /\ wres' = [op |-> op, friend |-> friend.id, db |-> db,
                    val |-> IF op = "get_msgs" THEN wfiles[db] ELSE <<>>]
        /\ wcache' = close_unused_of(c1, idle \ {cache_key(friend)})
        /\ UNCHANGED otherW

\* MsgStore.add_msg(friend, msg)
CacheAddMsg ==
    /\ wcalls < MaxStoreCalls
    /\ \E friend \in AccountFriends, idle \in SUBSET CacheKeys :
         CacheCall("add_msg", friend, idle)

\* MsgStore.get_msgs(friend)
CacheGetMsgs ==
    /\ wcalls < MaxStoreCalls
    /\ \E friend \in AccountFriends, idle \in SUBSET CacheKeys :
         CacheCall("get_msgs", friend, idle)

NextCache == CacheAddMsg \/ CacheGetMsgs

SpecCache == InitCache /\ [][NextCache]_vars

\* the msgdbname of the friend with the id
MsgDbNameOf(id) == (CHOOSE f \in AccountFriends : f.id = id).msgdbname

\* C36: a call of the store for a friend reads and writes the message
\* database friend.msgdbname, also when two friends have one name.
C36_OwnDatabase ==
    wres.op # "none" => wres.db = MsgDbNameOf(wres.friend)

\* C37: a call of add_msg that raises leaves the msg table and the files
\* table as they were.
C37_AddMsgAllOrNothing ==
    [][(qres'.op = "add_msg" /\ qres'.raised # "" /\ qcalls' # qcalls)
          => (qmsg' = qmsg /\ qfiles' = qfiles)]_vars

\* C38: a call of download_file that raises leaves the destination file as
\* it was: neither created nor changed.
C38_FailedDownloadKeepsFile ==
    [][(dpc # "done" /\ dpc' = "done" /\ dres' # Returned_ok) => dout' = dout]_vars

\* C39: a login is never sent on a connection on which the receive loop has
\* ended by an error or because the peer closed it: the login after such an
\* end goes out on a newly opened connection.
C39_LoginOnNewConnection ==
    [][bhello'.n # bhello.n => bhello'.sock \notin bended]_vars

\* C40: when decrypt_msg succeeds, the type and the recipient of the message
\* it returns are those the sender gave to make_msg, and neither the type
\* field nor the to-id of the envelope was changed on the way.
C40_TypeAndRecipientAuthentic ==
    (mpc = "decrypted" /\ mres.ok) =>
        /\ mres.v.type = morig.type
        /\ mres.v.to = morig.friend
        /\ mtamper \notin {"type", "to"}

====
